---- MODULE Spec2Model ----
(***************************************************************************)
(* VaultRaider: the credential and token lifecycle (device-code flow with  *)
(* polling, per-scope token cache, refresh-token exchange, global slots)   *)
(* and the TTL resource cache (load on miss, invalidation).                *)
(*                                                                         *)
(* Every asynchronous operation is a task: a caller c runs one operation   *)
(* at a time and advances by one action per stretch of code between two    *)
(* suspension points (a network round trip, a sleep, a lock acquisition    *)
(* that may have to wait).  A lock section that contains no await is one   *)
(* atomic action.                                                          *)
(***************************************************************************)
EXTENDS Integers, Sequences, FiniteSets, TLC

\* ---------------------------------------------------------------- bounds
MaxTime == 1          \* the clock runs from 0 to MaxTime seconds
MaxIssued == 2        \* access tokens the identity provider issues in a run
MaxFlows == 2         \* device-code flows the provider starts in a run
MaxSlowDowns == 2     \* slow_down answers the provider gives to one call
MaxPending == 1       \* authorization_pending answers to one call (SpecAuth)
CacheTick == 150      \* seconds by which the clock advances in SpecCache
MaxCacheTime == 600   \* the clock of SpecCache runs from 0 to MaxCacheTime

\* ------------------------------------------------------ program constants
MAX_POLL_ATTEMPTS == 60
max_attempts == 60
POLL_SLOWDOWN_SECONDS == 5
DEFAULT_EXPIRES_IN == 3600
SUBSCRIPTION_TTL_SECS == 600
RESOURCE_GROUP_TTL_SECS == 300
KEYVAULT_TTL_SECS == 300
SECRETS_LIST_TTL_SECS == 180
SECRET_VALUE_TTL_SECS == 180

\* A string that the code inspects by its "/"-separated tail is the sequence
\* of its "/"-separated parts (the "//" of the URL scheme stays in part 1).
MANAGEMENT_SCOPE == <<"https://management.azure.com", ".default">>
KEYVAULT_SCOPE == <<"https://vault.azure.net", ".default">>
AUTH_SCOPES ==
  <<"https://management.azure.com", ".default offline_access openid profile">>

\* The scopes callers ask for.
Scopes == {MANAGEMENT_SCOPE, KEYVAULT_SCOPE, AUTH_SCOPES}

\* Option<T>: None is the empty sequence, Some(v) the one-element sequence.
None == <<>>
Some(v) == <<v>>
IsSome(o) == o # <<>>
Unwrap(o) == o[1]

\* AccessToken { token, expires_on }: the secret is the provider's serial number.
AccessToken(secret, expires_on) == [secret |-> secret, expires_on |-> expires_on]

\* ------------------------------------------------------------- the state
VARIABLES
  now,                \* OffsetDateTime::now_utc(), in seconds
  AUTH_CREDENTIAL,    \* the Global Credential Slot: 0 (None) or a credential id
  DEVICE_CODE_STATE,  \* Option<DeviceCodeState>
  USER_INFO,          \* Option<UserInfo>
  creds,              \* the credential objects ever constructed (Arc), by id
  locks,              \* the tokio Mutex guards held across a suspension point
  issued,             \* access tokens issued by the provider so far
  flows,              \* device codes issued by the provider so far
  cache,              \* AZURE_CACHE: per category, key -> Option<entry>
  task                \* per caller: the operation in progress and its locals

authVars == <<AUTH_CREDENTIAL, DEVICE_CODE_STATE, USER_INFO, creds, locks,
              issued, flows>>
vars == <<now, AUTH_CREDENTIAL, DEVICE_CODE_STATE, USER_INFO, creds, locks,
          issued, flows, cache, task>>

Callers == {1, 2}
LockNames ==
  {"AUTH_CREDENTIAL", "DEVICE_CODE_STATE", "USER_INFO",
   \* the cells of the interactive credential
   "cached_tokens", "refresh_token"}

\* A successful token result, an error, or no result yet.
\* An error message is the sequence of the pieces its format string joins.
NoResult == [kind |-> "none", err |-> <<>>, val |-> None]
Ok(v) == [kind |-> "ok", err |-> <<>>, val |-> Some(v)]
Err(e) == [kind |-> "err", err |-> e, val |-> None]

\* The locals of a caller that runs no operation.
IdleTask ==
  [op |-> "idle", pc |-> "idle", scope |-> None, cred |-> 0, state |-> None,
   attempts |-> 0, resource_scope |-> None, tok |-> None, sleep |-> 0,
   got |-> NoResult, cat |-> "", key |-> None, result |-> NoResult,
   cli_error |-> <<>>, env_error |-> <<>>, user_email |-> None,
   user_name |-> None, subscription_id |-> None, vault_uri |-> None,
   secret_name |-> None, secret_value |-> None,
   \* bookkeeping of the call in progress, read by the properties only
   via |-> "", nReq |-> 0, nSlow |-> 0, nSleeps |-> 0, sleepDurs |-> {},
   stale |-> None, lastCode |-> "", error_text |-> {}, retAt |-> 0,
   loaderRuns |-> 0, loaded |-> None, storedAt |-> 0, follows |-> "",
   tried |-> <<>>, jwt |-> None, written |-> None, issuedFor |-> None,
   remoteAt |-> 0]

\* ------------------------------------------------------ the resource cache
\* The keys of each category; a key is the sequence of the strings it is
\* built from (secret_key joins the vault URI and the secret name).
SubscriptionIds == {"sub1"}
VaultUris == {<<"vaultA">>, <<"vaultB">>}
SecretNames == {<<"s1">>, <<"s2">>}
\* The version segment of a secret id, when the service gives one.
SecretVersions == {<<"ver1">>}
\* format!("{}::{}", vault_uri, secret_name)
secret_key(vault_uri, secret_name) == vault_uri \o <<"::">> \o secret_name
Categories ==
  {"subscriptions", "resource_groups", "keyvaults", "secrets_list", "secret_values"}
KeysOf(cat) ==
  CASE cat = "subscriptions" -> {<<"subscriptions">>}
    [] cat = "resource_groups" -> {<<id>> : id \in SubscriptionIds}
    [] cat = "keyvaults" -> {<<id>> : id \in SubscriptionIds}
    [] cat = "secrets_list" -> VaultUris
    [] OTHER -> {secret_key(v, n) : v \in VaultUris,
                                    n \in SecretNames \cup SecretVersions}

\* Cache::builder().time_to_live(..) of each category, AzureCache::new
TimeToLive(cat) ==
  CASE cat = "subscriptions" -> SUBSCRIPTION_TTL_SECS
    [] cat = "resource_groups" -> RESOURCE_GROUP_TTL_SECS
    [] cat = "keyvaults" -> KEYVAULT_TTL_SECS
    [] cat = "secrets_list" -> SECRETS_LIST_TTL_SECS
    [] OTHER -> SECRET_VALUE_TTL_SECS

EmptyCache == [cat \in Categories |-> [k \in KeysOf(cat) |-> None]]

\* An entry has expired once its time to live has passed since its insert.
Expired(cat, entry, time) == entry.inserted + TimeToLive(cat) <= time

\* Cache::get: the value of an entry that is present and has not expired.
CacheGet(cat, key) ==
  IF IsSome(cache[cat][key]) /\ ~Expired(cat, Unwrap(cache[cat][key]), now)
    THEN Some(Unwrap(cache[cat][key]).value)
    ELSE None

\* Cache::insert, Cache::invalidate, Cache::invalidate_all
CacheInsert(ch, cat, key, value) ==
  [ch EXCEPT ![cat][key] = Some([value |-> value, inserted |-> now])]
CacheInvalidate(ch, cat, key) == [ch EXCEPT ![cat][key] = None]
CacheInvalidateAll(ch, cat) == [ch EXCEPT ![cat] = [k \in KeysOf(cat) |-> None]]

\* The cache drops the entries that have expired at the given time.
Evict(ch, time) ==
  [cat \in Categories |-> [k \in KeysOf(cat) |->
     IF IsSome(ch[cat][k]) /\ Expired(cat, Unwrap(ch[cat][k]), time)
       THEN None ELSE ch[cat][k]]]

Init ==
  /\ cache = EmptyCache
  /\ now = 0
  /\ AUTH_CREDENTIAL = 0
  /\ DEVICE_CODE_STATE = None
  /\ USER_INFO = None
  /\ creds = <<>>
  /\ locks = [l \in LockNames |-> 0]
  /\ issued = 0
  /\ flows = 0
  /\ task = [c \in Callers |-> IdleTask]

SetTask(c, t) == task' = [task EXCEPT ![c] = t]

\* A caller that runs no operation may start one.
Ready(c) == task[c].pc \in {"idle", "done"}

\* The clock advances by d seconds, up to max.
Tick(d, max) ==
  /\ now + d <= max
  /\ now' = now + d
  /\ cache' = Evict(cache, now + d)
  /\ UNCHANGED <<authVars, task>>

\* ------------------------------------------- the identity provider's answers
\* A token-endpoint answer: a transport failure ("io"), a success status whose
\* body does not parse ("bad"), a TokenResponse ("ok") or an error body ("err").
TokenIo == [status |-> "io", expires_in |-> None, has_refresh |-> FALSE, error |-> ""]
TokenBad == [status |-> "bad", expires_in |-> None, has_refresh |-> FALSE, error |-> ""]
TokenOk(e, rt) == [status |-> "ok", expires_in |-> e, has_refresh |-> rt, error |-> ""]
TokenErr(code) == [status |-> "err", expires_in |-> None, has_refresh |-> FALSE, error |-> code]

\* TokenResponse.expires_in: Option<u64>
ExpiresIn == {None, Some(0), Some(1)}
\* error_json["error"], "" when the body is no JSON object with that field
PollErrorCodes == {"authorization_pending", "slow_down", "expired_token", ""}
PollAnswers ==
  {TokenIo, TokenBad}
    \cup {TokenOk(e, rt) : e \in ExpiresIn, rt \in BOOLEAN}
    \cup {TokenErr(code) : code \in PollErrorCodes}
\* The error text of a failed refresh exchange is read with contains(): it is
\* the set of the inspected substrings that occur in it.
RefreshErrorTexts ==
  {{}, {"AADSTS70011"}, {"AADSTS70011", "does not exist"},
   {"AADSTS70011", "management.azure.com"}}
RefreshAnswers ==
  {TokenIo, TokenBad}
    \cup {TokenOk(e, rt) : e \in ExpiresIn, rt \in BOOLEAN}
    \cup {TokenErr(text) : text \in RefreshErrorTexts}

\* ------------------------------------------------------------ credentials
\* InteractiveDeviceCodeCredential { cached_tokens, refresh_token } and
\* ManualDeviceCodeCredential { access_token }, one record shape for both.
NoTokens == [s \in Scopes |-> None]
NewInteractiveCredential ==
  [kind |-> "interactive", cached_tokens |-> NoTokens, refresh_token |-> None,
   access_token |-> None]
NewManualCredential ==
  [kind |-> "manual", cached_tokens |-> NoTokens, refresh_token |-> None,
   access_token |-> None]

\* AzureCliCredential and ClientSecretCredential of azure_identity: they hold
\* no token of their own in this program.
NewExternalCredential(kind) ==
  [kind |-> kind, cached_tokens |-> NoTokens, refresh_token |-> None,
   access_token |-> None]

\* The slot gives up its Arc: a credential that neither the slot (then
\* holding id slot) nor a call in progress refers to is dropped, and its
\* tokens with it.
DropUnheld(cr, slot) ==
  [id \in 1..Len(cr) |->
     IF id = slot \/ \E c \in Callers :
                       task[c].cred = id /\ task[c].pc \notin {"idle", "done"}
       THEN cr[id]
       ELSE [cr[id] EXCEPT !.cached_tokens = NoTokens, !.refresh_token = None,
                           !.access_token = None]]

\* expires_in.unwrap_or(3600), then now_utc() + Duration::from_secs(expires_in)
ExpiresOn(expires_in) ==
  now + (IF IsSome(expires_in) THEN Unwrap(expires_in) ELSE DEFAULT_EXPIRES_IN)

\* A freshness check that accepts every cached token.
TokenValid_IgnoresExpiry(tok) == tok.secret > 0

\* token.expires_on > OffsetDateTime::now_utc()
TokenValid(tok) == tok.expires_on > now

\* Bookkeeping: the cached token the call found, when its expiry is in the past.
StaleToken(hit) ==
  IF IsSome(hit) /\ Unwrap(hit).expires_on <= now THEN hit ELSE None

\* A sleep after authorization_pending that backs off as slow_down does.
PendingSleep_BacksOff(interval) == interval + POLL_SLOWDOWN_SECONDS

\* A sleep after slow_down that does not back off.
SlowDownSleep_NoBackOff(interval) == interval

\* The sleep after authorization_pending and after slow_down.
PendingSleep(interval) == interval
SlowDownSleep(interval) == interval + POLL_SLOWDOWN_SECONDS

\* --------------------------------------- what follows credential.get_token
\* The caller of credential.get_token continues with its result, with no
\* suspension point in between.
MapTokenError(t, res) ==
  IF res.kind = "ok"
    THEN Ok(Unwrap(res.val).secret)
    ELSE Err(<<"TokenError", "Failed to get token for scope">> \o res.err)

GetTokenReturn(t, res) ==
  LET r == [t EXCEPT !.got = res, !.retAt = now] IN
  CASE t.op = "get_token_for_scope" ->
         [r EXCEPT !.pc = "done", !.result = MapTokenError(t, res)]
    [] t.op = "complete_interactive_browser_login" ->
         IF res.kind = "ok" THEN [r EXCEPT !.pc = "ci_clear"]
         ELSE [r EXCEPT !.pc = "done", !.result = Err(res.err)]
    [] OTHER ->
         IF res.kind = "ok" THEN [r EXCEPT !.pc = "store_auth"]
         ELSE [r EXCEPT !.pc = "done", !.result = Err(res.err)]

\* credential.get_token(scopes): dynamic dispatch on the credential's type.
EnterGetToken(t, id, scope) ==
  [t EXCEPT !.cred = id, !.scope = Some(scope),
            !.pc = IF creds[id].kind = "interactive" THEN "it_cache"
                   ELSE IF creds[id].kind = "manual" THEN "mn_check"
                   ELSE "ext_wait",
            !.via = IF creds[id].kind \in {"interactive", "manual"} THEN ""
                    ELSE creds[id].kind]

\* A loop top whose bound is off by one.
LoopTop_OffByOne(t, max) ==
  IF t.attempts > max
    THEN GetTokenReturn(t, Err(<<"Authentication timed out">>))
    ELSE [t EXCEPT !.pc = "poll_wait", !.nReq = @ + 1]

\* ----------------------------- InteractiveDeviceCodeCredential::get_token
\* The top of the polling loop, up to the send of the exchange request.
LoopTop(t, max) ==
  IF t.attempts >= max
    THEN GetTokenReturn(t, Err(<<"Authentication timed out">>))
    ELSE [t EXCEPT !.pc = "poll_wait", !.nReq = @ + 1]

\* The read section on cached_tokens: a token that has not expired is returned.
ICacheCheck(c) ==
  LET t == task[c]
      hit == creds[t.cred].cached_tokens[Unwrap(t.scope)] IN
  /\ t.pc = "it_cache"
  /\ locks["cached_tokens"] = 0
  /\ IF IsSome(hit) /\ TokenValid(Unwrap(hit))
       THEN SetTask(c, GetTokenReturn([t EXCEPT !.via = "cache",
                                                !.stale = StaleToken(hit)],
                                      Ok(Unwrap(hit))))
       ELSE SetTask(c, [t EXCEPT !.pc = "it_refresh_check",
                                 !.stale = StaleToken(hit)])
  /\ UNCHANGED <<now, authVars, cache>>

\* The read section on refresh_token: with a refresh token the call goes on
\* in get_token_with_refresh.
IRefreshCheck(c) ==
  LET t == task[c] IN
  /\ t.pc = "it_refresh_check"
  /\ locks["refresh_token"] = 0
  /\ IF IsSome(creds[t.cred].refresh_token)
       THEN SetTask(c, [t EXCEPT !.pc = "rf_read", !.via = "refresh"])
       ELSE SetTask(c, [t EXCEPT !.pc = "it_state", !.via = "device_code"])
  /\ UNCHANGED <<now, authVars, cache>>

\* The section on DEVICE_CODE_STATE, then the first pass through the loop top.
IReadState(c) ==
  LET t == task[c] IN
  /\ t.pc = "it_state"
  /\ locks["DEVICE_CODE_STATE"] = 0
  /\ IF DEVICE_CODE_STATE = None
       THEN SetTask(c, GetTokenReturn(t,
              Err(<<"No device code state found - please start authentication first">>)))
       ELSE SetTask(c, LoopTop([t EXCEPT !.state = DEVICE_CODE_STATE,
                                         !.attempts = 0], MAX_POLL_ATTEMPTS))
  /\ UNCHANGED <<now, authVars, cache>>

\* The answer to one exchange request of the loop.
IPollResponse(c, r) ==
  LET t == task[c]
      code == r.error
      interval == Unwrap(t.state).interval IN
  /\ t.pc = "poll_wait"
  /\ creds[t.cred].kind = "interactive"
  /\ r.status = "ok" => issued < MaxIssued
  /\ CASE r.status = "io" ->
            /\ SetTask(c, GetTokenReturn(t, Err(<<"Io">>)))
            /\ UNCHANGED <<creds, issued>>
       [] r.status = "bad" ->
            /\ SetTask(c, GetTokenReturn(t, Err(<<"DataConversion">>)))
            /\ UNCHANGED <<creds, issued>>
       [] r.status = "ok" ->
            \* the write section on refresh_token, then the token is built
            /\ r.has_refresh => locks["refresh_token"] = 0
            /\ issued' = issued + 1
            /\ creds' = IF r.has_refresh
                          THEN [creds EXCEPT ![t.cred].refresh_token = Some(issued + 1)]
                          ELSE creds
            /\ SetTask(c, [t EXCEPT !.pc = "poll_cache",
                    !.tok = Some(AccessToken(issued + 1, ExpiresOn(r.expires_in))),
                    !.issuedFor = Some(AUTH_SCOPES)])
       [] OTHER ->
            /\ IF code = "authorization_pending"
                 THEN SetTask(c, [t EXCEPT !.attempts = @ + 1, !.pc = "sleep",
                        !.sleep = PendingSleep(interval), !.lastCode = code,
                        !.nSleeps = @ + 1,
                        !.sleepDurs = @ \cup {PendingSleep(interval)}])
                 ELSE IF code = "slow_down"
                 THEN SetTask(c, [t EXCEPT !.pc = "sleep",
                        !.sleep = SlowDownSleep(interval), !.lastCode = code,
                        !.nSleeps = @ + 1, !.nSlow = @ + 1,
                        !.sleepDurs = @ \cup {SlowDownSleep(interval)}])
                 ELSE SetTask(c, GetTokenReturn([t EXCEPT !.lastCode = code],
                        Err(<<"Authentication failed", code>>)))
            /\ UNCHANGED <<creds, issued>>
  /\ UNCHANGED <<now, cache, AUTH_CREDENTIAL, DEVICE_CODE_STATE, USER_INFO, locks, flows>>

\* The write section on cached_tokens after the device-code exchange: the
\* token is stored under AUTH_SCOPES and returned.
IPollCache(c) ==
  LET t == task[c] IN
  /\ t.pc = "poll_cache"
  /\ locks["cached_tokens"] = 0
  /\ creds' = [creds EXCEPT ![t.cred].cached_tokens[AUTH_SCOPES] = t.tok]
  /\ SetTask(c, GetTokenReturn(t, Ok(Unwrap(t.tok))))
  /\ UNCHANGED <<now, cache, AUTH_CREDENTIAL, DEVICE_CODE_STATE, USER_INFO, locks,
                 issued, flows>>

\* tokio::time::sleep is over: back to the top of the loop.
IWake(c) ==
  LET t == task[c] IN
  /\ t.pc = "sleep"
  /\ creds[t.cred].kind = "interactive"
  /\ SetTask(c, LoopTop([t EXCEPT !.sleep = 0], MAX_POLL_ATTEMPTS))
  /\ UNCHANGED <<now, authVars, cache>>

\* ------------------ InteractiveDeviceCodeCredential::get_token_with_refresh
\* scope.ends_with("/.default")
EndsWithDefault(scope) == Len(scope) >= 2 /\ scope[Len(scope)] = ".default"

\* scope.trim_end_matches("/.default"): every trailing repetition is removed.
RECURSIVE TrimEndMatches(_)
TrimEndMatches(scope) ==
  IF EndsWithDefault(scope)
    THEN TrimEndMatches(SubSeq(scope, 1, Len(scope) - 1))
    ELSE scope

\* The scope sent to the v2 endpoint.
ResourceScope(scope) ==
  IF EndsWithDefault(scope)
    THEN TrimEndMatches(scope) \o <<"user_impersonation">>
    ELSE scope

\* A refresh that keeps its guard on refresh_token while the request is in
\* flight.
RfRead_KeepsGuard(c) ==
  LET t == task[c] IN
  /\ t.pc = "rf_read"
  /\ locks["refresh_token"] = 0
  /\ IF creds[t.cred].refresh_token = None
       THEN /\ SetTask(c, GetTokenReturn(t,
                   Err(<<"No refresh token available - please re-authenticate">>)))
            /\ UNCHANGED locks
       ELSE /\ SetTask(c, [t EXCEPT !.pc = "rf_wait", !.nReq = @ + 1,
                   !.resource_scope = Some(ResourceScope(Unwrap(t.scope)))])
            /\ locks' = [locks EXCEPT !["refresh_token"] = c]
  /\ UNCHANGED <<now, cache, AUTH_CREDENTIAL, DEVICE_CODE_STATE, USER_INFO, creds,
                 issued, flows>>

\* The read section on refresh_token, then the refresh request is sent.
RfRead(c) ==
  LET t == task[c] IN
  /\ t.pc = "rf_read"
  /\ locks["refresh_token"] = 0
  /\ IF creds[t.cred].refresh_token = None
       THEN SetTask(c, GetTokenReturn(t,
              Err(<<"No refresh token available - please re-authenticate">>)))
       ELSE SetTask(c, [t EXCEPT !.pc = "rf_wait", !.nReq = @ + 1,
              !.resource_scope = Some(ResourceScope(Unwrap(t.scope)))])
  /\ UNCHANGED <<now, authVars, cache>>

\* error_text.contains("AADSTS70011") && (error_text.contains(
\* "management.azure.com") || error_text.contains("does not exist"))
IsPersonalAccountError(error_text) ==
  /\ "AADSTS70011" \in error_text
  /\ \/ "management.azure.com" \in error_text
     \/ "does not exist" \in error_text

\* A refresh that forgets the refresh token when the exchange fails.
RfResponse_ForgetsOnFailure(c, r) ==
  LET t == task[c] IN
  /\ t.pc = "rf_wait"
  /\ r.status = "ok" => issued < MaxIssued
  /\ IF r.status = "ok"
       THEN /\ issued' = issued + 1
            /\ creds' = IF r.has_refresh
                          THEN [creds EXCEPT ![t.cred].refresh_token = Some(issued + 1)]
                          ELSE creds
            /\ SetTask(c, [t EXCEPT !.pc = "rf_cache",
                    !.tok = Some(AccessToken(issued + 1, ExpiresOn(r.expires_in))),
                    !.issuedFor = t.resource_scope])
       ELSE /\ creds' = [creds EXCEPT ![t.cred].refresh_token = None]
            /\ SetTask(c, GetTokenReturn([t EXCEPT !.error_text = r.error],
                   Err(<<"Failed to get token for scope">>)))
            /\ UNCHANGED issued
  /\ UNCHANGED <<now, cache, AUTH_CREDENTIAL, DEVICE_CODE_STATE, USER_INFO, locks, flows>>

\* The answer to the refresh request.
RfResponse(c, r) ==
  LET t == task[c] IN
  /\ t.pc = "rf_wait"
  /\ r.status = "ok" => issued < MaxIssued
  /\ CASE r.status = "io" ->
            /\ SetTask(c, GetTokenReturn(t, Err(<<"Io">>)))
            /\ UNCHANGED <<creds, issued>>
       [] r.status = "bad" ->
            /\ SetTask(c, GetTokenReturn(t, Err(<<"DataConversion">>)))
            /\ UNCHANGED <<creds, issued>>
       [] r.status = "ok" ->
            \* the write section on refresh_token, then the token is built
            /\ r.has_refresh => locks["refresh_token"] = 0
            /\ issued' = issued + 1
            /\ creds' = IF r.has_refresh
                          THEN [creds EXCEPT ![t.cred].refresh_token = Some(issued + 1)]
                          ELSE creds
            /\ SetTask(c, [t EXCEPT !.pc = "rf_cache",
                    !.tok = Some(AccessToken(issued + 1, ExpiresOn(r.expires_in))),
                    !.issuedFor = t.resource_scope])
       [] OTHER ->
            /\ IF IsPersonalAccountError(r.error)
                 THEN SetTask(c, GetTokenReturn([t EXCEPT !.error_text = r.error],
                        Err(<<"Personal Microsoft accounts cannot access Azure Resource Manager API directly">>)))
                 ELSE SetTask(c, GetTokenReturn([t EXCEPT !.error_text = r.error],
                        Err(<<"Failed to get token for scope">>)))
            /\ UNCHANGED <<creds, issued>>
  /\ UNCHANGED <<now, cache, AUTH_CREDENTIAL, DEVICE_CODE_STATE, USER_INFO, locks, flows>>

\* The write section on cached_tokens after a refresh exchange: the token is
\* stored under the requested scope and returned.
RfCache(c) ==
  LET t == task[c] IN
  /\ t.pc = "rf_cache"
  /\ locks["cached_tokens"] = 0
  /\ creds' = [creds EXCEPT ![t.cred].cached_tokens[Unwrap(t.scope)] = t.tok]
  /\ SetTask(c, GetTokenReturn(t, Ok(Unwrap(t.tok))))
  /\ UNCHANGED <<now, cache, AUTH_CREDENTIAL, DEVICE_CODE_STATE, USER_INFO, locks,
                 issued, flows>>

\* ------------------------------------ ManualDeviceCodeCredential::get_token
\* The read section on access_token: a token that has not expired is
\* returned, whatever scope is asked for.
MCheck(c) ==
  LET t == task[c]
      hit == creds[t.cred].access_token IN
  /\ t.pc = "mn_check"
  /\ IF IsSome(hit) /\ TokenValid(Unwrap(hit))
       THEN SetTask(c, GetTokenReturn([t EXCEPT !.via = "cache",
                                                !.stale = StaleToken(hit)],
                                      Ok(Unwrap(hit))))
       ELSE SetTask(c, [t EXCEPT !.pc = "mn_state", !.stale = StaleToken(hit),
                                 !.via = "device_code"])
  /\ UNCHANGED <<now, authVars, cache>>

\* The section on DEVICE_CODE_STATE, then the first pass through the loop top.
MReadState(c) ==
  LET t == task[c] IN
  /\ t.pc = "mn_state"
  /\ locks["DEVICE_CODE_STATE"] = 0
  /\ IF DEVICE_CODE_STATE = None
       THEN SetTask(c, GetTokenReturn(t, Err(<<"No device code state found">>)))
       ELSE SetTask(c, LoopTop([t EXCEPT !.state = DEVICE_CODE_STATE,
                                         !.attempts = 0], max_attempts))
  /\ UNCHANGED <<now, authVars, cache>>

\* The answer to one exchange request of the loop.
MPollResponse(c, r) ==
  LET t == task[c]
      code == r.error
      interval == Unwrap(t.state).interval IN
  /\ t.pc = "poll_wait"
  /\ creds[t.cred].kind = "manual"
  /\ r.status = "ok" => issued < MaxIssued
  /\ CASE r.status = "io" ->
            /\ SetTask(c, GetTokenReturn(t, Err(<<"Io">>)))
            /\ UNCHANGED issued
       [] r.status = "bad" ->
            /\ SetTask(c, GetTokenReturn(t, Err(<<"DataConversion">>)))
            /\ UNCHANGED issued
       [] r.status = "ok" ->
            /\ issued' = issued + 1
            /\ SetTask(c, [t EXCEPT !.pc = "mn_store",
                    !.tok = Some(AccessToken(issued + 1, ExpiresOn(r.expires_in))),
                    !.issuedFor = Some(AUTH_SCOPES)])
       [] OTHER ->
            /\ IF code = "authorization_pending"
                 THEN SetTask(c, [t EXCEPT !.attempts = @ + 1, !.pc = "sleep",
                        !.sleep = PendingSleep(interval), !.lastCode = code,
                        !.nSleeps = @ + 1,
                        !.sleepDurs = @ \cup {PendingSleep(interval)}])
                 ELSE SetTask(c, GetTokenReturn([t EXCEPT !.lastCode = code],
                        Err(<<"Authentication failed", code>>)))
            /\ UNCHANGED issued
  /\ UNCHANGED <<now, cache, AUTH_CREDENTIAL, DEVICE_CODE_STATE, USER_INFO, creds,
                 locks, flows>>

\* The write section on access_token: the token is stored and returned.
MStore(c) ==
  LET t == task[c] IN
  /\ t.pc = "mn_store"
  /\ creds' = [creds EXCEPT ![t.cred].access_token = t.tok]
  /\ SetTask(c, GetTokenReturn(t, Ok(Unwrap(t.tok))))
  /\ UNCHANGED <<now, cache, AUTH_CREDENTIAL, DEVICE_CODE_STATE, USER_INFO, locks,
                 issued, flows>>

\* tokio::time::sleep is over: back to the top of the loop.
MWake(c) ==
  LET t == task[c] IN
  /\ t.pc = "sleep"
  /\ creds[t.cred].kind = "manual"
  /\ SetTask(c, LoopTop([t EXCEPT !.sleep = 0], max_attempts))
  /\ UNCHANGED <<now, authVars, cache>>

\* A get_token_for_scope that falls back on the last credential built when
\* the slot is empty.
GetTokenForScope_LastCredential(c, scope) ==
  LET t == [IdleTask EXCEPT !.op = "get_token_for_scope"] IN
  /\ Ready(c)
  /\ locks["AUTH_CREDENTIAL"] = 0
  /\ IF AUTH_CREDENTIAL = 0 /\ creds = <<>>
       THEN SetTask(c, [t EXCEPT !.scope = Some(scope), !.pc = "done",
                                 !.result = Err(<<"NotAuthenticated">>)])
       ELSE SetTask(c, EnterGetToken(t,
              IF AUTH_CREDENTIAL = 0 THEN Len(creds) ELSE AUTH_CREDENTIAL, scope))
  /\ UNCHANGED <<now, authVars, cache>>

\* ------------------------------- GlobalTokenProvider::get_token_for_scope
\* The section on AUTH_CREDENTIAL: without a credential the call fails with
\* NotAuthenticated, with one it goes on in that credential's get_token.
GetTokenForScope(c, scope) ==
  LET t == [IdleTask EXCEPT !.op = "get_token_for_scope"] IN
  /\ Ready(c)
  /\ locks["AUTH_CREDENTIAL"] = 0
  /\ IF AUTH_CREDENTIAL = 0
       THEN SetTask(c, [t EXCEPT !.scope = Some(scope), !.pc = "done",
                                 !.result = Err(<<"NotAuthenticated">>)])
       ELSE SetTask(c, EnterGetToken(t, AUTH_CREDENTIAL, scope))
  /\ UNCHANGED <<now, authVars, cache>>

\* -------------------------------------------------- the device-code request
\* A device-code-endpoint answer: a transport failure, a non-success status,
\* a body that does not parse, or a DeviceCodeResponse with its interval.
DeviceIo == [status |-> "io", interval |-> 0]
DeviceErr == [status |-> "err", interval |-> 0]
DeviceBad == [status |-> "bad", interval |-> 0]
DeviceOk(i) == [status |-> "ok", interval |-> i]
Intervals == {1, 5}
DeviceAnswers == {DeviceIo, DeviceErr, DeviceBad} \cup {DeviceOk(i) : i \in Intervals}

DeviceCodeState(device_code, interval) ==
  [device_code |-> device_code, interval |-> interval]

\* start_interactive_browser_login / start_device_code_login: the request is sent.
StartLogin(c, op) ==
  /\ Ready(c)
  /\ SetTask(c, [IdleTask EXCEPT !.op = op, !.pc = "start_wait", !.nReq = 1])
  /\ UNCHANGED <<now, authVars, cache>>

\* A start that forgets the stored session when its request fails.
StartResponse_ClearsOnFailure(c, r) ==
  LET t == task[c] IN
  /\ t.pc = "start_wait"
  /\ r.status = "ok" => flows < MaxFlows
  /\ IF r.status = "ok"
       THEN /\ flows' = flows + 1
            /\ SetTask(c, [t EXCEPT !.pc = "start_state",
                    !.state = Some(DeviceCodeState(flows + 1, r.interval))])
            /\ UNCHANGED DEVICE_CODE_STATE
       ELSE /\ DEVICE_CODE_STATE' = None
            /\ SetTask(c, [t EXCEPT !.pc = "done",
                    !.result = Err(<<"Device code request failed">>)])
            /\ UNCHANGED flows
  /\ UNCHANGED <<now, cache, AUTH_CREDENTIAL, USER_INFO, creds, locks, issued>>

\* The answer to the device-code request.
StartResponse(c, r) ==
  LET t == task[c] IN
  /\ t.pc = "start_wait"
  /\ r.status = "ok" => flows < MaxFlows
  /\ CASE r.status = "io" ->
            /\ SetTask(c, [t EXCEPT !.pc = "done",
                    !.result = Err(<<"Failed to request device code">>)])
            /\ UNCHANGED flows
       [] r.status = "err" ->
            /\ SetTask(c, [t EXCEPT !.pc = "done",
                    !.result = Err(<<"Device code request failed">>)])
            /\ UNCHANGED flows
       [] r.status = "bad" ->
            /\ SetTask(c, [t EXCEPT !.pc = "done",
                    !.result = Err(<<"Failed to parse device code response">>)])
            /\ UNCHANGED flows
       [] OTHER ->
            /\ flows' = flows + 1
            /\ SetTask(c, [t EXCEPT !.pc = "start_state",
                    !.state = Some(DeviceCodeState(flows + 1, r.interval))])
  /\ UNCHANGED <<now, cache, AUTH_CREDENTIAL, DEVICE_CODE_STATE, USER_INFO, creds,
                 locks, issued>>

\* The session is stored.  start_interactive_browser_login keeps the guard on
\* DEVICE_CODE_STATE until it returns; start_device_code_login drops it at the
\* end of the block.
StartStoreState(c) ==
  LET t == task[c] IN
  /\ t.pc = "start_state"
  /\ locks["DEVICE_CODE_STATE"] = 0
  /\ DEVICE_CODE_STATE' = t.state
  /\ locks' = IF t.op = "start_interactive_browser_login"
                THEN [locks EXCEPT !["DEVICE_CODE_STATE"] = c]
                ELSE locks
  /\ SetTask(c, [t EXCEPT !.pc = "start_cred"])
  /\ UNCHANGED <<now, cache, AUTH_CREDENTIAL, USER_INFO, creds, issued, flows>>

\* A fresh credential is stored in AUTH_CREDENTIAL and the call returns the
\* DeviceCodeInfo.
StartStoreCredential(c) ==
  LET t == task[c] IN
  /\ t.pc = "start_cred"
  /\ locks["AUTH_CREDENTIAL"] = 0
  /\ creds' = DropUnheld(Append(creds, IF t.op = "start_interactive_browser_login"
                                         THEN NewInteractiveCredential
                                         ELSE NewManualCredential),
                         Len(creds) + 1)
  /\ AUTH_CREDENTIAL' = Len(creds) + 1
  /\ locks' = [locks EXCEPT !["DEVICE_CODE_STATE"] = IF @ = c THEN 0 ELSE @]
  /\ SetTask(c, [t EXCEPT !.pc = "done",
                          !.result = Ok(Unwrap(t.state).device_code)])
  /\ UNCHANGED <<now, cache, DEVICE_CODE_STATE, USER_INFO, issued, flows>>

\* ------------- complete_interactive_browser_login / complete_device_code_login
\* The section on AUTH_CREDENTIAL: the credential is cloned and asked for a
\* management token.
CompleteLogin(c, op) ==
  LET t == [IdleTask EXCEPT !.op = op] IN
  /\ Ready(c)
  /\ locks["AUTH_CREDENTIAL"] = 0
  /\ IF AUTH_CREDENTIAL = 0
       THEN SetTask(c, [t EXCEPT !.pc = "done",
                    !.result = Err(<<"No authentication flow in progress">>)])
       ELSE SetTask(c, EnterGetToken(t, AUTH_CREDENTIAL, MANAGEMENT_SCOPE))
  /\ UNCHANGED <<now, authVars, cache>>

\* complete_interactive_browser_login clears the session after get_token.
CompleteClearState(c) ==
  LET t == task[c] IN
  /\ t.pc = "ci_clear"
  /\ locks["DEVICE_CODE_STATE"] = 0
  /\ DEVICE_CODE_STATE' = None
  /\ SetTask(c, [t EXCEPT !.pc = "store_auth"])
  /\ UNCHANGED <<now, cache, AUTH_CREDENTIAL, USER_INFO, creds, locks, issued, flows>>

\* ------------------------------------------------------- store_auth_result
\* The section on AUTH_CREDENTIAL: the credential the caller holds is stored.
StoreAuthCredential(c) ==
  LET t == task[c] IN
  /\ t.pc = "store_auth"
  /\ locks["AUTH_CREDENTIAL"] = 0
  /\ AUTH_CREDENTIAL' = t.cred
  /\ creds' = DropUnheld(creds, t.cred)
  /\ SetTask(c, [t EXCEPT !.pc = "store_user"])
  /\ UNCHANGED <<now, cache, DEVICE_CODE_STATE, USER_INFO, locks, issued, flows>>

\* store_user_info(email, name)
UserInfoOf(email, name) ==
  IF IsSome(email) \/ IsSome(name)
    THEN Some([email |-> IF IsSome(email) THEN Unwrap(email) ELSE "Personal Account",
               name |-> name])
    ELSE Some([email |-> "Microsoft Account", name |-> Some("Personal Account")])

\* The text of a bearer token: the number of its dot-separated segments,
\* whether the middle one decodes as base64 (URL-safe or standard), whether
\* the decoded bytes parse as TokenClaims, and the claims they hold.
TokenText(segments, decodes, parses, upn, email, unique_name, preferred_username, name) ==
  [segments |-> segments, decodes |-> decodes, parses |-> parses, upn |-> upn,
   email |-> email, unique_name |-> unique_name,
   preferred_username |-> preferred_username, name |-> name]
Jwt(upn, email, unique_name, preferred_username, name) ==
  TokenText(3, TRUE, TRUE, upn, email, unique_name, preferred_username, name)
OpaqueToken == TokenText(1, FALSE, FALSE, None, None, None, None, None)
UndecodableJwt == TokenText(3, FALSE, FALSE, None, None, None, None, None)
UnparsableJwt == TokenText(3, TRUE, FALSE, None, None, None, None, None)

\* Option::or
OptionOr(a, b) == IF IsSome(a) THEN a ELSE b

\* extract_user_info_from_token(token): (email, name)
extract_user_info_from_token(token) ==
  IF token.segments # 3 THEN <<None, None>>
  ELSE IF ~token.decodes THEN <<None, None>>
  ELSE IF ~token.parses THEN <<None, None>>
  ELSE <<OptionOr(OptionOr(OptionOr(token.upn, token.email), token.unique_name),
                  token.preferred_username),
         token.name>>

\* The token texts of the device-code flows: one without claims, one with.
SampleTokens ==
  {OpaqueToken, Jwt(Some("a@b.com"), None, None, None, Some("A B"))}

\* The bearer tokens a login can receive: not three segments, a payload that
\* is not base64, a payload that is not a claims object, a JWT without
\* identity claims, with a name only, with an empty upn, and a full one.
TokenStrings ==
  SampleTokens \cup
    {UndecodableJwt, UnparsableJwt, Jwt(None, None, None, None, None),
     Jwt(None, None, None, None, Some("A B")),
     Jwt(Some(""), None, None, None, None)}

\* The claims are taken from the token, then the section on USER_INFO, then
\* store_auth_result returns the AuthResult.
StoreUserInfo(c, token) ==
  LET t == task[c]
      claims == extract_user_info_from_token(token) IN
  /\ t.pc = "store_user"
  /\ locks["USER_INFO"] = 0
  /\ USER_INFO' = UserInfoOf(claims[1], claims[2])
  /\ SetTask(c, [t EXCEPT !.pc = "done", !.result = Ok(Unwrap(t.got.val).secret),
                          !.jwt = Some(token), !.user_email = claims[1],
                          !.user_name = claims[2]])
  /\ UNCHANGED <<now, cache, AUTH_CREDENTIAL, DEVICE_CODE_STATE, creds, locks, issued, flows>>

\* ------------------------------------------------------------------- login
\* The answer of a credential of azure_identity asked for a token: the
\* credential cannot be built, get_token fails, or a token comes back.
FailureReasons == {"reason A", "reason B"}
ExternalAnswers ==
  {[status |-> st, reason |-> r] : st \in {"new_err", "token_err"}, r \in FailureReasons}
    \cup {[status |-> "ok", reason |-> ""]}

\* try_azure_cli_login: the error text of a failed attempt
CliError(r) ==
  IF r.status = "new_err"
    THEN <<"Failed to create Azure CLI credential: ", r.reason>>
    ELSE <<"Azure CLI authentication failed: ", r.reason>>

\* try_environment_credential: the error text of a failed attempt
EnvError(r) ==
  IF r.status = "new_err"
    THEN <<"Failed to create client secret credential: ", r.reason>>
    ELSE <<"Service Principal authentication failed: ", r.reason>>
SecretNotSet == <<"AZURE_CLIENT_SECRET environment variable not set">>

\* A login that stops at the failure of the CLI attempt.
AfterCliFailure_Fatal(t, cli_error) ==
  [t EXCEPT !.pc = "done", !.cli_error = cli_error, !.result = Err(cli_error)]

\* login() after the CLI attempt failed: try_environment_credential is called.
AfterCliFailure(t, cli_error) ==
  [t EXCEPT !.pc = "sp_env", !.cli_error = cli_error,
            !.tried = Append(@, "service_principal")]

\* A combined error that reports the last failure only.
LoginError_LastOnly(cli_error, env_error) ==
  <<"All authentication methods failed.", "Service Principal: ">> \o env_error

\* The error of login() when both attempts failed.
LoginError(cli_error, env_error) ==
  <<"All authentication methods failed.", "Azure CLI: ">> \o cli_error
    \o <<"Service Principal: ">> \o env_error
    \o <<"Please either: 1. Run 'az login' in your terminal, or 2. Set AZURE_CLIENT_SECRET environment variable for Service Principal auth">>

\* login() calls try_azure_cli_login, which asks the CLI credential for a
\* token.
Login(c) ==
  /\ Ready(c)
  /\ SetTask(c, [IdleTask EXCEPT !.op = "login", !.pc = "cli_wait",
                                 !.tried = <<"cli">>, !.via = "cli"])
  /\ UNCHANGED <<now, authVars, cache>>

\* A token of an azure_identity credential goes to store_auth_result.
ExternalTokenObtained(t, kind) ==
  [t EXCEPT !.cred = Len(creds) + 1, !.via = kind, !.pc = "store_auth",
            !.got = Ok(AccessToken(issued + 1, ExpiresOn(None))),
            !.retAt = now]

\* The CLI attempt ends.
CliResponse(c, r) ==
  LET t == task[c] IN
  /\ t.pc = "cli_wait"
  /\ IF r.status = "ok"
       THEN /\ issued < MaxIssued
            /\ issued' = issued + 1
            /\ creds' = Append(creds, NewExternalCredential("cli"))
            /\ SetTask(c, ExternalTokenObtained(t, "cli"))
       ELSE /\ SetTask(c, AfterCliFailure(t, CliError(r)))
            /\ UNCHANGED <<creds, issued>>
  /\ UNCHANGED <<now, cache, AUTH_CREDENTIAL, DEVICE_CODE_STATE, USER_INFO, locks, flows>>

\* try_environment_credential reads the environment: without
\* AZURE_CLIENT_SECRET it fails before any exchange.
SpEnvironment(c, has_secret) ==
  LET t == task[c] IN
  /\ t.pc = "sp_env"
  /\ IF has_secret
       THEN SetTask(c, [t EXCEPT !.pc = "sp_wait", !.via = "service_principal"])
       ELSE SetTask(c, [t EXCEPT !.pc = "done", !.env_error = SecretNotSet,
                                 !.result = Err(LoginError(t.cli_error, SecretNotSet))])
  /\ UNCHANGED <<now, authVars, cache>>

\* The Service-Principal attempt ends.
SpResponse(c, r) ==
  LET t == task[c] IN
  /\ t.pc = "sp_wait"
  /\ IF r.status = "ok"
       THEN /\ issued < MaxIssued
            /\ issued' = issued + 1
            /\ creds' = Append(creds, NewExternalCredential("service_principal"))
            /\ SetTask(c, ExternalTokenObtained(t, "service_principal"))
       ELSE /\ SetTask(c, [t EXCEPT !.pc = "done", !.env_error = EnvError(r),
                                    !.result = Err(LoginError(t.cli_error, EnvError(r)))])
            /\ UNCHANGED <<creds, issued>>
  /\ UNCHANGED <<now, cache, AUTH_CREDENTIAL, DEVICE_CODE_STATE, USER_INFO, locks, flows>>

\* get_token of the azure_identity credential in the slot returns.
ExternalTokenResponse(c, r) ==
  LET t == task[c] IN
  /\ t.pc = "ext_wait"
  /\ IF r.status = "ok"
       THEN /\ issued < MaxIssued
            /\ issued' = issued + 1
            /\ SetTask(c, GetTokenReturn(t, Ok(AccessToken(issued + 1, ExpiresOn(None)))))
       ELSE /\ r.status = "token_err"
            /\ SetTask(c, GetTokenReturn(t, Err(<<r.reason>>)))
            /\ UNCHANGED issued
  /\ UNCHANGED <<now, cache, AUTH_CREDENTIAL, DEVICE_CODE_STATE, USER_INFO, creds, locks, flows>>

\* ------------------------------------------------------- the status queries
\* is_authenticated() and get_user_info(), each one section on its lock.
is_authenticated == AUTH_CREDENTIAL # 0
get_user_info == USER_INFO

\* ------------------------------------------------------------------ logout
\* AUTH_CREDENTIAL is emptied; its guard is kept until logout returns.
Logout(c) ==
  /\ Ready(c)
  /\ locks["AUTH_CREDENTIAL"] = 0
  /\ AUTH_CREDENTIAL' = 0
  /\ creds' = DropUnheld(creds, 0)
  /\ locks' = [locks EXCEPT !["AUTH_CREDENTIAL"] = c]
  /\ SetTask(c, [IdleTask EXCEPT !.op = "logout", !.pc = "logout_user",
                                 !.via = IF AUTH_CREDENTIAL = 0 THEN ""
                                         ELSE creds[AUTH_CREDENTIAL].kind])
  /\ UNCHANGED <<now, cache, DEVICE_CODE_STATE, USER_INFO, issued, flows>>

\* A logout that returns without emptying USER_INFO.
LogoutUserInfo_KeepsUserInfo(c) ==
  LET t == task[c] IN
  /\ t.pc = "logout_user"
  /\ locks["USER_INFO"] = 0
  /\ locks' = [locks EXCEPT !["AUTH_CREDENTIAL"] = 0]
  /\ SetTask(c, [t EXCEPT !.pc = "done", !.result = Ok(0)])
  /\ UNCHANGED <<now, cache, AUTH_CREDENTIAL, DEVICE_CODE_STATE, USER_INFO, creds,
                 issued, flows>>

\* A logout that also takes DEVICE_CODE_STATE, after AUTH_CREDENTIAL, to empty
\* USER_INFO: the order opposite to start_interactive_browser_login's.
LogoutUserInfo_NeedsSession(c) ==
  LET t == task[c] IN
  /\ t.pc = "logout_user"
  /\ locks["DEVICE_CODE_STATE"] = 0
  /\ locks["USER_INFO"] = 0
  /\ USER_INFO' = None
  /\ locks' = [locks EXCEPT !["AUTH_CREDENTIAL"] = 0]
  /\ SetTask(c, [t EXCEPT !.pc = "done", !.result = Ok(0)])
  /\ UNCHANGED <<now, cache, AUTH_CREDENTIAL, DEVICE_CODE_STATE, creds, issued, flows>>

\* USER_INFO is emptied and logout returns, dropping both guards.
LogoutUserInfo(c) ==
  LET t == task[c] IN
  /\ t.pc = "logout_user"
  /\ locks["USER_INFO"] = 0
  /\ USER_INFO' = None
  /\ locks' = [locks EXCEPT !["AUTH_CREDENTIAL"] = 0]
  /\ SetTask(c, [t EXCEPT !.pc = "done", !.result = Ok(0)])
  /\ UNCHANGED <<now, cache, AUTH_CREDENTIAL, DEVICE_CODE_STATE, creds, issued, flows>>

\* ------------------------------------------------- AzureCache operations
\* What a loader returns: the remote data as a value, or an error.
LoadOk(v) == [ok |-> TRUE, value |-> v]
LoadErr == [ok |-> FALSE, value |-> 0]
LoadValues == {1, 2}
LoaderAnswers == {LoadErr} \cup {LoadOk(v) : v \in LoadValues}

\* Bookkeeping: the value the caller's previous call wrote to the service,
\* when it was a successful create_secret or update_secret of the secret the
\* key stands for.
WrittenBefore(prev, cat, key) ==
  IF /\ prev.pc = "done" /\ prev.op \in {"create_secret", "update_secret"}
     /\ prev.result.kind = "ok" /\ cat = "secret_values"
     /\ key = secret_key(Unwrap(prev.vault_uri), Unwrap(prev.secret_name))
    THEN prev.secret_value
    ELSE None

\* Bookkeeping: the version of a vault's secret list on the service, as the
\* other callers have changed it: one more than the number of them whose
\* command on a secret of the vault has succeeded.
RemoteVersion(c, cat, key) ==
  1 + Cardinality({d \in Callers \ {c} :
        /\ cat = "secrets_list"
        /\ task[d].op \in {"create_secret", "update_secret", "delete_secret",
                           "recover_deleted_secret"}
        /\ task[d].pc = "done" /\ task[d].result.kind = "ok"
        /\ task[d].vault_uri = Some(key)})

\* Bookkeeping: how the caller's previous call ended, when it was a call on
\* the same key.
Follows(prev, cat, key) ==
  IF prev.pc = "done" /\ prev.cat = cat /\ prev.key = Some(key)
    THEN (IF prev.op = "get_or_load" THEN prev.result.kind
          ELSE IF prev.follows = "entry" THEN "invalidate" ELSE "")
    ELSE ""

\* get_*_or_load up to the call of the loader: a hit is returned with no
\* I/O, a miss invokes the loader.
GetOrLoad(c, cat, key) ==
  LET t == [IdleTask EXCEPT !.op = "get_or_load", !.cat = cat, !.key = Some(key),
                            !.follows = Follows(task[c], cat, key),
                            !.written = WrittenBefore(task[c], cat, key),
                            !.remoteAt = RemoteVersion(c, cat, key)]
      hit == CacheGet(cat, key) IN
  /\ Ready(c)
  /\ IF IsSome(hit)
       THEN SetTask(c, [t EXCEPT !.pc = "done", !.result = Ok(Unwrap(hit)),
                                 !.storedAt = Unwrap(cache[cat][key]).inserted])
       ELSE SetTask(c, [t EXCEPT !.pc = "load_wait", !.loaderRuns = 1])
  /\ UNCHANGED <<now, authVars, cache>>

\* A loader return that hands the value back without storing it.
LoaderReturns_NoStore(c, r) ==
  LET t == task[c] IN
  /\ t.pc = "load_wait"
  /\ cache' = cache
  /\ IF r.ok
       THEN SetTask(c, [t EXCEPT !.pc = "done", !.result = Ok(r.value),
                                 !.loaded = Some(r.value), !.storedAt = now])
       ELSE SetTask(c, [t EXCEPT !.pc = "done", !.result = Err(<<"loader error">>)])
  /\ UNCHANGED <<now, authVars>>

\* A loader return that stores an empty result under the key on failure.
LoaderReturns_StoresFailure(c, r) ==
  LET t == task[c] IN
  /\ t.pc = "load_wait"
  /\ IF r.ok
       THEN /\ cache' = CacheInsert(cache, t.cat, Unwrap(t.key), r.value)
            /\ SetTask(c, [t EXCEPT !.pc = "done", !.result = Ok(r.value),
                                    !.loaded = Some(r.value), !.storedAt = now])
       ELSE /\ cache' = CacheInsert(cache, t.cat, Unwrap(t.key), 0)
            /\ SetTask(c, [t EXCEPT !.pc = "done", !.result = Err(<<"loader error">>)])
  /\ UNCHANGED <<now, authVars>>

\* A loader return that gives way to an entry stored in the meantime: the
\* entry is kept and its value is returned.
LoaderReturns_KeepsFirst(c, r) ==
  LET t == task[c]
      hit == CacheGet(t.cat, Unwrap(t.key)) IN
  /\ t.pc = "load_wait"
  /\ IF r.ok /\ IsSome(hit)
       THEN /\ cache' = cache
            /\ SetTask(c, [t EXCEPT !.pc = "done", !.result = Ok(Unwrap(hit)),
                                    !.loaded = Some(r.value), !.storedAt = now])
       ELSE IF r.ok
         THEN /\ cache' = CacheInsert(cache, t.cat, Unwrap(t.key), r.value)
              /\ SetTask(c, [t EXCEPT !.pc = "done", !.result = Ok(r.value),
                                      !.loaded = Some(r.value), !.storedAt = now])
         ELSE /\ cache' = cache
              /\ SetTask(c, [t EXCEPT !.pc = "done", !.result = Err(<<"loader error">>)])
  /\ UNCHANGED <<now, authVars>>

\* The loader returns: its error is propagated and nothing is stored, its
\* value is inserted under the key and returned.
LoaderReturns(c, r) ==
  LET t == task[c] IN
  /\ t.pc = "load_wait"
  /\ IF r.ok
       THEN /\ cache' = CacheInsert(cache, t.cat, Unwrap(t.key), r.value)
            /\ SetTask(c, [t EXCEPT !.pc = "done", !.result = Ok(r.value),
                                    !.loaded = Some(r.value), !.storedAt = now])
       ELSE /\ cache' = cache
            /\ SetTask(c, [t EXCEPT !.pc = "done", !.result = Err(<<"loader error">>)])
  /\ UNCHANGED <<now, authVars>>

get_subscriptions_or_load(c) == GetOrLoad(c, "subscriptions", <<"subscriptions">>)
get_resource_groups_or_load(c, subscription_id) ==
  GetOrLoad(c, "resource_groups", <<subscription_id>>)
get_keyvaults_or_load(c, subscription_id) ==
  GetOrLoad(c, "keyvaults", <<subscription_id>>)
get_secrets_list_or_load(c, vault_uri) ==
  GetOrLoad(c, "secrets_list", vault_uri)
get_secret_value_or_load(c, vault_uri, secret_name) ==
  GetOrLoad(c, "secret_values", secret_key(vault_uri, secret_name))

\* An invalidate that leaves the entry in place.
Invalidate_KeepsEntry(c, cat, key) ==
  /\ Ready(c)
  /\ cache' = cache
  /\ SetTask(c, [IdleTask EXCEPT !.op = "invalidate", !.cat = cat,
                   !.key = Some(key), !.pc = "done", !.result = Ok(0),
                   !.follows = IF IsSome(CacheGet(cat, key)) THEN "entry" ELSE ""])
  /\ UNCHANGED <<now, authVars>>

\* invalidate_*: the entry of the key is removed.
Invalidate(c, cat, key) ==
  /\ Ready(c)
  /\ cache' = CacheInvalidate(cache, cat, key)
  /\ SetTask(c, [IdleTask EXCEPT !.op = "invalidate", !.cat = cat,
                   !.key = Some(key), !.pc = "done", !.result = Ok(0),
                   !.follows = IF IsSome(CacheGet(cat, key)) THEN "entry" ELSE ""])
  /\ UNCHANGED <<now, authVars>>

invalidate_subscriptions(c) == Invalidate(c, "subscriptions", <<"subscriptions">>)
invalidate_resource_groups(c, subscription_id) ==
  Invalidate(c, "resource_groups", <<subscription_id>>)
invalidate_keyvaults(c, subscription_id) ==
  Invalidate(c, "keyvaults", <<subscription_id>>)
invalidate_secrets_list(c, vault_uri) ==
  Invalidate(c, "secrets_list", vault_uri)
invalidate_secret_value(c, vault_uri, secret_name) ==
  Invalidate(c, "secret_values", secret_key(vault_uri, secret_name))

\* ------------------------------------------------- the mutating commands
\* SecretBundle { id, value }; the id is the sequence of its "/"-separated
\* parts: the vault, "secrets", the name and, when present, the version.
SecretBundle(vault_uri, secret_name, version, value) ==
  [id |-> vault_uri \o <<"secrets">> \o secret_name \o version, value |-> value]

\* secret.id.split('/').last().unwrap_or("")
LastSegment(id) == <<id[Len(id)]>>

\* AzureCache::cache_secret_value: the key is built from the last segment of
\* the bundle's id; the entry is represented by the bundle's value.
cache_secret_value(ch, vault_uri, secret) ==
  CacheInsert(ch, "secret_values", secret_key(vault_uri, LastSegment(secret.id)),
              secret.value)

\* What the service answers to a mutating request: an error, or success; the
\* id of a bundle it returns ends with the name or with a version.
RemoteAnswers ==
  {[ok |-> FALSE, version |-> <<>>]} \cup
  {[ok |-> TRUE, version |-> v] : v \in {<<>>} \cup SecretVersions}

\* A command sends its request to the service.
create_keyvault(c, subscription_id) ==
  /\ Ready(c)
  /\ SetTask(c, [IdleTask EXCEPT !.op = "create_keyvault", !.pc = "remote_wait",
                                 !.subscription_id = Some(subscription_id)])
  /\ UNCHANGED <<now, authVars, cache>>

delete_keyvault(c, subscription_id) ==
  /\ Ready(c)
  /\ SetTask(c, [IdleTask EXCEPT !.op = "delete_keyvault", !.pc = "remote_wait",
                                 !.subscription_id = Some(subscription_id)])
  /\ UNCHANGED <<now, authVars, cache>>

delete_secret(c, keyvault_uri, secret_name) ==
  /\ Ready(c)
  /\ SetTask(c, [IdleTask EXCEPT !.op = "delete_secret", !.pc = "remote_wait",
                                 !.vault_uri = Some(keyvault_uri),
                                 !.secret_name = Some(secret_name)])
  /\ UNCHANGED <<now, authVars, cache>>

create_secret(c, keyvault_uri, secret_name, secret_value) ==
  /\ Ready(c)
  /\ SetTask(c, [IdleTask EXCEPT !.op = "create_secret", !.pc = "remote_wait",
                                 !.vault_uri = Some(keyvault_uri),
                                 !.secret_name = Some(secret_name),
                                 !.secret_value = Some(secret_value)])
  /\ UNCHANGED <<now, authVars, cache>>

update_secret(c, keyvault_uri, secret_name, secret_value) ==
  /\ Ready(c)
  /\ SetTask(c, [IdleTask EXCEPT !.op = "update_secret", !.pc = "remote_wait",
                                 !.vault_uri = Some(keyvault_uri),
                                 !.secret_name = Some(secret_name),
                                 !.secret_value = Some(secret_value)])
  /\ UNCHANGED <<now, authVars, cache>>

recover_deleted_secret(c, keyvault_uri, secret_name) ==
  /\ Ready(c)
  /\ SetTask(c, [IdleTask EXCEPT !.op = "recover_deleted_secret",
                                 !.pc = "remote_wait",
                                 !.vault_uri = Some(keyvault_uri),
                                 !.secret_name = Some(secret_name)])
  /\ UNCHANGED <<now, authVars, cache>>

\* A command that, on success, drops the secret list and every secret value
\* of its vault.
CommandEffect_ClearsVault(ch, t, r) ==
  LET vault_uri == IF IsSome(t.vault_uri) THEN Unwrap(t.vault_uri) ELSE <<"vaultA">> IN
  IF ~r.ok THEN ch
  ELSE [CacheInvalidate(ch, "secrets_list", vault_uri) EXCEPT
          !["secret_values"] = [k \in KeysOf("secret_values") |->
             IF \E n \in SecretNames \cup SecretVersions : k = secret_key(vault_uri, n)
               THEN None ELSE ch["secret_values"][k]]]

\* A command that drops the cached secret list whether the service accepted
\* the request or not.
CommandEffect_Always(ch, t, r) ==
  CacheInvalidate(ch, "secrets_list",
                  IF IsSome(t.vault_uri) THEN Unwrap(t.vault_uri) ELSE <<"vaultA">>)

\* The cache after the command of task t has received answer r: nothing
\* changes on an error, on success the command's entries are invalidated or
\* stored.
CommandEffect(ch, t, r) ==
  LET bundle == SecretBundle(Unwrap(t.vault_uri), Unwrap(t.secret_name),
                             r.version, Unwrap(t.secret_value)) IN
  IF ~r.ok THEN ch
  ELSE CASE t.op \in {"create_keyvault", "delete_keyvault"} ->
              CacheInvalidate(ch, "keyvaults", <<Unwrap(t.subscription_id)>>)
         [] t.op = "delete_secret" ->
              CacheInvalidate(
                CacheInvalidate(ch, "secret_values",
                  secret_key(Unwrap(t.vault_uri), Unwrap(t.secret_name))),
                "secrets_list", Unwrap(t.vault_uri))
         [] t.op = "create_secret" ->
              CacheInvalidate(cache_secret_value(ch, Unwrap(t.vault_uri), bundle),
                              "secrets_list", Unwrap(t.vault_uri))
         [] t.op = "update_secret" ->
              CacheInvalidate(
                cache_secret_value(
                  CacheInvalidate(ch, "secret_values",
                    secret_key(Unwrap(t.vault_uri), Unwrap(t.secret_name))),
                  Unwrap(t.vault_uri), bundle),
                "secrets_list", Unwrap(t.vault_uri))
         [] OTHER ->
              CacheInvalidate(ch, "secrets_list", Unwrap(t.vault_uri))

\* The service answers: the command updates the cache and returns the result
\* (the value of the bundle for create_secret and update_secret).
RemoteReturns(c, r) ==
  LET t == task[c] IN
  /\ t.pc = "remote_wait"
  /\ cache' = CommandEffect(cache, t, r)
  /\ SetTask(c, [t EXCEPT !.pc = "done",
                          !.result = IF ~r.ok THEN Err(<<"remote error">>)
                                     ELSE IF IsSome(t.secret_value)
                                       THEN Ok(Unwrap(t.secret_value))
                                       ELSE Ok(0)])
  /\ UNCHANGED <<now, authVars>>

\* invalidate_vault_cache -> AzureCache::invalidate_vault_secrets: only the
\* vault's secret list is invalidated.
invalidate_vault_secrets(c, vault_uri) ==
  /\ Ready(c)
  /\ cache' = CacheInvalidate(cache, "secrets_list", vault_uri)
  /\ SetTask(c, [IdleTask EXCEPT !.op = "invalidate_vault_secrets", !.pc = "done",
                                 !.vault_uri = Some(vault_uri), !.result = Ok(0)])
  /\ UNCHANGED <<now, authVars>>

\* The loader of a get_secret that follows the caller's own write reads what
\* that write left on the service.
ReadsOwnWrite(c, r) ==
  (r.ok /\ IsSome(task[c].written)) => r.value = Unwrap(task[c].written)

\* The loader of a secret list returns the list as the service held it at
\* some time between the loader's call and its return.
ReadsRemote(c, r) ==
  r.ok => /\ task[c].remoteAt <= r.value
          /\ r.value <= RemoteVersion(c, task[c].cat, Unwrap(task[c].key))

\* --------------------------------------------------------- specifications
StartOps == {"start_interactive_browser_login", "start_device_code_login"}
CompleteOps == {"complete_interactive_browser_login", "complete_device_code_login"}

\* The steps of the login operations and of device-code polling that both
\* credential kinds share.
LoginStep(c) ==
  \/ \E r \in DeviceAnswers : StartResponse(c, r)
  \/ StartStoreState(c) \/ StartStoreCredential(c)
  \/ StoreAuthCredential(c)
  \/ \E token \in SampleTokens : StoreUserInfo(c, token)

\* The steps of InteractiveDeviceCodeCredential::get_token and of
\* complete_interactive_browser_login.
InteractiveStep(c) ==
  \/ ICacheCheck(c) \/ IRefreshCheck(c) \/ IReadState(c) \/ IPollCache(c)
  \/ IWake(c)
  \/ RfRead(c) \/ RfCache(c)
  \/ \E r \in RefreshAnswers : RfResponse(c, r)
  \/ CompleteClearState(c)

\* The steps of ManualDeviceCodeCredential::get_token.
ManualStep(c) ==
  \/ MCheck(c) \/ MReadState(c) \/ MStore(c) \/ MWake(c)

\* The provider answers a poll; it answers slow_down at most MaxSlowDowns
\* times and authorization_pending at most maxPending times to one call.
PollAllowed(c, r, maxPending) ==
  /\ r.error = "slow_down" => task[c].nSlow < MaxSlowDowns
  /\ r.error = "authorization_pending" => task[c].attempts < maxPending

IPollStep(c, maxPending) ==
  \E r \in PollAnswers : PollAllowed(c, r, maxPending) /\ IPollResponse(c, r)

MPollStep(c, maxPending) ==
  \E r \in PollAnswers : PollAllowed(c, r, maxPending) /\ MPollResponse(c, r)

\* SpecAuth: one caller runs the interactive login, token requests and logout
\* one after the other, with short polling loops, while the clock advances.
NextAuth ==
  \/ Tick(1, MaxTime)
  \/ \E scope \in Scopes : GetTokenForScope(1, scope)
  \/ (flows = 0 /\ StartLogin(1, "start_interactive_browser_login"))
  \/ CompleteLogin(1, "complete_interactive_browser_login")
  \/ Logout(1)
  \/ LogoutUserInfo(1)
  \/ LoginStep(1)
  \/ InteractiveStep(1)
  \/ IPollStep(1, MaxPending)

SpecAuth == Init /\ [][NextAuth]_vars

\* SpecPoll: one caller and one device-code flow of either kind, with polling
\* loops of any length; the clock stands still.
NextPoll ==
  \/ (flows = 0 /\ \E op \in StartOps : StartLogin(1, op))
  \/ GetTokenForScope(1, MANAGEMENT_SCOPE)
  \/ \E op \in CompleteOps : CompleteLogin(1, op)
  \/ LoginStep(1)
  \/ InteractiveStep(1)
  \/ ManualStep(1)
  \/ IPollStep(1, MAX_POLL_ATTEMPTS)
  \/ MPollStep(1, MAX_POLL_ATTEMPTS)

SpecPoll == Init /\ [][NextPoll]_vars

\* The token-endpoint answers of SpecLogin: a poll succeeds at once or the
\* code has expired, a refresh succeeds or is refused.
LoginTokenAnswers == {TokenOk(None, TRUE), TokenErr("expired_token")}
LoginRefreshAnswers == {TokenOk(None, FALSE), TokenErr({})}

\* SpecLogin: one caller logs in by every method, asks for tokens, fetches a
\* secrets list through the cache and logs out; the device-code flows are
\* answered without delay and the clock stands still.
NextLogin ==
  \/ Login(1)
  \/ \E r \in ExternalAnswers : CliResponse(1, r)
  \/ \E has_secret \in BOOLEAN : SpEnvironment(1, has_secret)
  \/ \E r \in ExternalAnswers : SpResponse(1, r)
  \/ \E r \in ExternalAnswers : ExternalTokenResponse(1, r)
  \/ GetTokenForScope(1, KEYVAULT_SCOPE)
  \/ (flows = 0 /\ \E op \in StartOps : StartLogin(1, op))
  \/ \E op \in CompleteOps : CompleteLogin(1, op)
  \/ Logout(1)
  \/ LogoutUserInfo(1)
  \/ \E r \in DeviceAnswers : StartResponse(1, r)
  \/ StartStoreState(1)
  \/ StartStoreCredential(1)
  \/ StoreAuthCredential(1)
  \/ \E token \in TokenStrings : StoreUserInfo(1, token)
  \/ ICacheCheck(1) \/ IRefreshCheck(1) \/ IReadState(1) \/ IPollCache(1)
  \/ RfRead(1) \/ RfCache(1)
  \/ CompleteClearState(1)
  \/ MCheck(1) \/ MReadState(1) \/ MStore(1)
  \/ \E r \in LoginTokenAnswers : IPollResponse(1, r)
  \/ \E r \in LoginTokenAnswers : MPollResponse(1, r)
  \/ \E r \in LoginRefreshAnswers : RfResponse(1, r)
  \/ get_secrets_list_or_load(1, <<"vaultA">>)
  \/ \E r \in LoaderAnswers : LoaderReturns(1, r)

SpecLogin == Init /\ [][NextLogin]_vars

\* SpecTwo: caller 1 runs the interactive login while both callers ask the
\* credential for tokens; the token endpoint answers as in SpecLogin and the
\* clock stands still.
NextTwo ==
  \/ (flows = 0 /\ StartLogin(1, "start_interactive_browser_login"))
  \/ CompleteLogin(1, "complete_interactive_browser_login")
  \/ \E c \in Callers : GetTokenForScope(c, KEYVAULT_SCOPE)
  \/ GetTokenForScope(2, AUTH_SCOPES)
  \/ LoginStep(1)
  \/ CompleteClearState(1)
  \/ \E c \in Callers :
       \/ ICacheCheck(c) \/ IRefreshCheck(c) \/ IReadState(c) \/ IPollCache(c)
       \/ RfRead(c) \/ RfCache(c)
       \/ \E r \in LoginTokenAnswers : IPollResponse(c, r)
       \/ \E r \in LoginRefreshAnswers : RfResponse(c, r)

SpecTwo == Init /\ [][NextTwo]_vars

\* The token-endpoint answers of SpecRestart: those of SpecLogin and
\* authorization_pending.
RestartTokenAnswers == LoginTokenAnswers \cup {TokenErr("authorization_pending")}

\* SpecRestart: caller 2 starts device-code flows of either kind, again and
\* again, while caller 1 completes them; the clock stands still.
NextRestart ==
  \/ \E op \in StartOps : StartLogin(2, op)
  \/ \E r \in DeviceAnswers : StartResponse(2, r)
  \/ StartStoreState(2)
  \/ StartStoreCredential(2)
  \/ \E op \in CompleteOps : CompleteLogin(1, op)
  \/ ICacheCheck(1) \/ IRefreshCheck(1) \/ IReadState(1) \/ IPollCache(1)
  \/ IWake(1)
  \/ RfRead(1) \/ RfCache(1)
  \/ \E r \in LoginRefreshAnswers : RfResponse(1, r)
  \/ CompleteClearState(1)
  \/ MCheck(1) \/ MReadState(1) \/ MStore(1) \/ MWake(1)
  \/ \E r \in RestartTokenAnswers :
       PollAllowed(1, r, MaxPending) /\ IPollResponse(1, r)
  \/ \E r \in RestartTokenAnswers :
       PollAllowed(1, r, MaxPending) /\ MPollResponse(1, r)
  \/ StoreAuthCredential(1)
  \/ \E token \in SampleTokens : StoreUserInfo(1, token)

SpecRestart == Init /\ [][NextRestart]_vars

\* SpecCommands: one caller reads secrets, secret lists and key vaults through
\* the cache and runs the mutating commands; the clock stands still.
NextCommands ==
  \/ \E v \in VaultUris : \E n \in SecretNames : get_secret_value_or_load(1, v, n)
  \/ \E v \in VaultUris : get_secrets_list_or_load(1, v)
  \/ \E id \in SubscriptionIds : get_keyvaults_or_load(1, id)
  \/ \E r \in LoaderAnswers : ReadsOwnWrite(1, r) /\ LoaderReturns(1, r)
  \/ \E id \in SubscriptionIds : create_keyvault(1, id)
  \/ \E id \in SubscriptionIds : delete_keyvault(1, id)
  \/ \E value \in LoadValues : create_secret(1, <<"vaultA">>, <<"s1">>, value)
  \/ \E value \in LoadValues : update_secret(1, <<"vaultA">>, <<"s1">>, value)
  \/ delete_secret(1, <<"vaultA">>, <<"s1">>)
  \/ recover_deleted_secret(1, <<"vaultA">>, <<"s1">>)
  \/ \E r \in RemoteAnswers : RemoteReturns(1, r)
  \/ invalidate_vault_secrets(1, <<"vaultA">>)

SpecCommands == Init /\ [][NextCommands]_vars

\* SpecStale: caller 1 reads the secret list of a vault through the cache
\* while caller 2 changes a secret of the vault, once.
NextStale ==
  \/ get_secrets_list_or_load(1, <<"vaultA">>)
  \/ \E r \in LoaderAnswers : ReadsRemote(1, r) /\ LoaderReturns(1, r)
  \/ (task[2].op = "idle" /\ delete_secret(2, <<"vaultA">>, <<"s1">>))
  \/ (task[2].op = "idle"
        /\ \E value \in LoadValues : create_secret(2, <<"vaultA">>, <<"s1">>, value))
  \/ \E r \in RemoteAnswers : RemoteReturns(2, r)

SpecStale == Init /\ [][NextStale]_vars

\* What the service holds under a key for the identity that asks: the data of
\* the account a@b.com, or the data of the account whose token names nobody.
IdentityData(info) == IF Unwrap(info).email = "a@b.com" THEN 1 ELSE 2

\* SpecIdentity: one caller logs in with the Azure CLI as one account or the
\* other, reads a secret list and a secret through the cache, and logs out;
\* a loader succeeds only while an identity is logged in and returns that
\* identity's data.
NextIdentity ==
  \/ Login(1)
  \/ \E r \in ExternalAnswers : CliResponse(1, r)
  \/ \E has_secret \in BOOLEAN : SpEnvironment(1, has_secret)
  \/ \E r \in ExternalAnswers : SpResponse(1, r)
  \/ StoreAuthCredential(1)
  \/ \E token \in SampleTokens : StoreUserInfo(1, token)
  \/ Logout(1)
  \/ LogoutUserInfo(1)
  \/ get_secrets_list_or_load(1, <<"vaultA">>)
  \/ get_secret_value_or_load(1, <<"vaultA">>, <<"s1">>)
  \/ \E r \in LoaderAnswers :
       /\ r.ok => (IsSome(USER_INFO) /\ r.value = IdentityData(USER_INFO))
       /\ LoaderReturns(1, r)

SpecIdentity == Init /\ [][NextIdentity]_vars

\* SpecRace: caller 1 authenticates (login, or the interactive flow and its
\* completion) and caller 2 logs out; every call of caller 1 is invoked
\* before logout is, so that what caller 1 does after the logout belongs to
\* a call that was in flight.
NextRace ==
  \/ (task[2].op = "idle" /\ Login(1))
  \/ (task[2].op = "idle" /\ flows = 0
        /\ StartLogin(1, "start_interactive_browser_login"))
  \/ (task[2].op = "idle" /\ CompleteLogin(1, "complete_interactive_browser_login"))
  \/ \E r \in ExternalAnswers : CliResponse(1, r)
  \/ \E has_secret \in BOOLEAN : SpEnvironment(1, has_secret)
  \/ \E r \in ExternalAnswers : SpResponse(1, r)
  \/ \E r \in DeviceAnswers : StartResponse(1, r)
  \/ StartStoreState(1)
  \/ StartStoreCredential(1)
  \/ ICacheCheck(1) \/ IRefreshCheck(1) \/ IReadState(1) \/ IPollCache(1)
  \/ RfRead(1) \/ RfCache(1)
  \/ \E r \in LoginTokenAnswers : IPollResponse(1, r)
  \/ \E r \in LoginRefreshAnswers : RfResponse(1, r)
  \/ CompleteClearState(1)
  \/ StoreAuthCredential(1)
  \/ \E token \in SampleTokens : StoreUserInfo(1, token)
  \/ Logout(2)
  \/ LogoutUserInfo(2)

SpecRace == Init /\ [][NextRace]_vars

\* ------------------------------------------------- the pure functions
\* The state before a function is applied by caller 1: nothing but its input.
InitWith(t) ==
  /\ cache = EmptyCache
  /\ now = 0
  /\ AUTH_CREDENTIAL = 0
  /\ DEVICE_CODE_STATE = None
  /\ USER_INFO = None
  /\ creds = <<>>
  /\ locks = [l \in LockNames |-> 0]
  /\ issued = 0
  /\ flows = 0
  /\ task = [c \in Callers |-> IF c = 1 THEN t ELSE IdleTask]

\* The scopes a refresh exchange can be asked for: up to MaxScopeParts
\* "/"-separated parts.
MaxScopeParts == 3
ScopeParts ==
  {"https://vault.azure.net", ".default", "user_impersonation", "offline_access"}
ScopeInputs ==
  UNION {[1..n -> ScopeParts] : n \in 1..MaxScopeParts}

\* get_token_with_refresh builds resource_scope from scope.
ConvertScope(c) ==
  LET t == task[c] IN
  /\ t.pc = "scope_in"
  /\ SetTask(c, [t EXCEPT !.pc = "done",
                          !.resource_scope = Some(ResourceScope(Unwrap(t.scope)))])
  /\ UNCHANGED <<now, authVars, cache>>

\* SpecScope: the scope rewrite applied to each scope of ScopeInputs.
InitScope ==
  \E scope \in ScopeInputs :
    InitWith([IdleTask EXCEPT !.op = "get_token_with_refresh", !.pc = "scope_in",
                              !.scope = Some(scope)])
NextScope == ConvertScope(1)
SpecScope == InitScope /\ [][NextScope]_vars

\* The values a claim of the token payload can have: absent, the empty
\* string, or an address of its own.
ClaimValues(address) == {None, Some(""), Some(address)}
ClaimTokens ==
  {Jwt(upn, email, unique_name, preferred_username, name) :
     upn \in ClaimValues("upn@x.com"), email \in ClaimValues("email@x.com"),
     unique_name \in ClaimValues("unique@x.com"),
     preferred_username \in ClaimValues("preferred@x.com"),
     name \in {None, Some("A B")}}
    \cup {OpaqueToken, UndecodableJwt, UnparsableJwt}

\* store_auth_result takes the claims from the token it is given.
ExtractUserInfo(c) ==
  LET t == task[c]
      claims == extract_user_info_from_token(Unwrap(t.jwt)) IN
  /\ t.pc = "claims_in"
  /\ SetTask(c, [t EXCEPT !.pc = "done", !.user_email = claims[1],
                          !.user_name = claims[2]])
  /\ UNCHANGED <<now, authVars, cache>>

\* SpecClaims: the extraction applied to each token of ClaimTokens.
InitClaims ==
  \E token \in ClaimTokens :
    InitWith([IdleTask EXCEPT !.op = "extract_user_info_from_token",
                              !.pc = "claims_in", !.jwt = Some(token)])
NextClaims == ExtractUserInfo(1)
SpecClaims == InitClaims /\ [][NextClaims]_vars

\* SpecCache: one caller fetches through the cache and invalidates, on one
\* key of each category, while the clock advances.
NextCache ==
  \/ Tick(CacheTick, MaxCacheTime)
  \/ get_subscriptions_or_load(1)
  \/ \E id \in SubscriptionIds : get_resource_groups_or_load(1, id)
  \/ \E id \in SubscriptionIds : get_keyvaults_or_load(1, id)
  \/ get_secrets_list_or_load(1, <<"vaultA">>)
  \/ get_secret_value_or_load(1, <<"vaultA">>, <<"s1">>)
  \/ \E r \in LoaderAnswers : LoaderReturns(1, r)
  \/ invalidate_subscriptions(1)
  \/ \E id \in SubscriptionIds : invalidate_resource_groups(1, id)
  \/ \E id \in SubscriptionIds : invalidate_keyvaults(1, id)
  \/ invalidate_secrets_list(1, <<"vaultA">>)
  \/ invalidate_secret_value(1, <<"vaultA">>, <<"s1">>)

SpecCache == Init /\ [][NextCache]_vars

\* SpecLoads: two callers fetch through the cache at the same time.
NextLoads ==
  \/ \E c \in Callers : \E id \in SubscriptionIds : get_keyvaults_or_load(c, id)
  \/ \E c \in Callers : \E v \in VaultUris : get_secrets_list_or_load(c, v)
  \/ \E c \in Callers : get_secret_value_or_load(c, <<"vaultA">>, <<"s1">>)
  \/ \E c \in Callers : \E r \in LoaderAnswers : LoaderReturns(c, r)

SpecLoads == Init /\ [][NextLoads]_vars


\* ======================================================================
\* Properties of the authentication flows
\* ======================================================================
\* The kind of the credential a call runs in ("" before it has one).
CredKind(t) == IF t.cred = 0 THEN "" ELSE creds[t.cred].kind

\* A call that started while its caller was between calls.
Starts(c, op) == Ready(c) /\ task'[c] # task[c] /\ task'[c].op = op

RetryableCodes == {"authorization_pending", "slow_down"}

\* C1: every token the interactive credential's get_token returns, whether
\* it comes from the cache, a refresh or the device-code exchange, expires
\* strictly after the time of the return.
C1_ReturnedTokenNotExpired ==
  \A c \in Callers :
    (CredKind(task[c]) = "interactive" /\ task[c].got.kind = "ok")
      => Unwrap(task[c].got.val).expires_on > task[c].retAt

\* C2: a get_token_for_scope call made while AUTH_CREDENTIAL is empty ends in
\* that same step with NotAuthenticated, whatever the scope: it enters no
\* credential's get_token, sends no request and obtains no token.
C2_EmptySlotNotAuthenticated ==
  [][\A c \in Callers :
       (AUTH_CREDENTIAL = 0 /\ Starts(c, "get_token_for_scope"))
         => /\ task'[c].pc = "done"
            /\ task'[c].result = Err(<<"NotAuthenticated">>)
            /\ task'[c].cred = 0
            /\ task'[c].got = NoResult
            /\ task'[c].nReq = 0
            /\ issued' = issued]_vars

\* A call answered NotAuthenticated after a login and a logout: credentials
\* exist, the slot is empty.
C2_Witness ==
  /\ AUTH_CREDENTIAL = 0
  /\ creds # <<>>
  /\ task[1].op = "get_token_for_scope"
  /\ task[1].scope = Some(KEYVAULT_SCOPE)
  /\ task[1].result = Err(<<"NotAuthenticated">>)

\* C3: the interactive credential's polling loop sends at most
\* MAX_POLL_ATTEMPTS exchange requests when every answer is
\* authorization_pending or slow_down, and then stops with
\* "Authentication timed out".
C3_PollRequestsBounded ==
  \A c \in Callers :
    (CredKind(task[c]) = "interactive" /\ task[c].via = "device_code")
      => task[c].nReq <= MAX_POLL_ATTEMPTS

\* C4: a polling loop that is answered authorization_pending every time sends
\* exactly MAX_POLL_ATTEMPTS exchange requests, then returns the timeout
\* error, and the call sends no request after that.
C4_AllPendingTimesOut ==
  \A c \in Callers :
    (task[c].via = "device_code" /\ task[c].nSlow = 0)
      => /\ task[c].nReq <= MAX_POLL_ATTEMPTS
         /\ task[c].got = Err(<<"Authentication timed out">>)
              => /\ task[c].nReq = MAX_POLL_ATTEMPTS
                 /\ task[c].attempts = MAX_POLL_ATTEMPTS
                 /\ task[c].pc = "done"

\* The interactive loop has timed out after authorization_pending only.
C4_Witness ==
  /\ CredKind(task[1]) = "interactive"
  /\ task[1].nSlow = 0
  /\ task[1].got = Err(<<"Authentication timed out">>)
  /\ task[1].nReq = MAX_POLL_ATTEMPTS

\* C5: a polling loop answered authorization_pending N times and then with
\* success has slept N times, each time for the session's interval, has sent
\* N + 1 requests, and returns the token built from the last answer.
C5_PendingThenSuccess ==
  \A c \in Callers :
    (task[c].via = "device_code" /\ task[c].nSlow = 0 /\ task[c].got.kind = "ok")
      => /\ task[c].attempts < MAX_POLL_ATTEMPTS
         /\ task[c].nSleeps = task[c].attempts
         /\ task[c].sleepDurs \subseteq {Unwrap(task[c].state).interval}
         /\ task[c].nReq = task[c].attempts + 1
         /\ task[c].got.val = task[c].tok
         /\ Unwrap(task[c].got.val).secret = issued

\* Success on the last request the loop allows, after
\* MAX_POLL_ATTEMPTS - 1 answers of authorization_pending.
C5_Witness ==
  /\ task[1].via = "device_code"
  /\ task[1].nSlow = 0
  /\ task[1].got.kind = "ok"
  /\ task[1].attempts = MAX_POLL_ATTEMPTS - 1
  /\ task[1].nSleeps = MAX_POLL_ATTEMPTS - 1

\* C6: in every device-code polling loop, of either credential, an
\* "Authentication failed" error never carries authorization_pending or
\* slow_down (those answers make the loop retry), and it carries the code of
\* the answer that ended the loop.
C6_RetryableCodesNeverFail ==
  \A c \in Callers :
    (task[c].via = "device_code" /\ Len(task[c].got.err) = 2
       /\ task[c].got.err[1] = "Authentication failed")
      => /\ task[c].got.err[2] \notin RetryableCodes
         /\ task[c].got.err[2] = task[c].lastCode

SameKeyAgain(c) ==
  /\ Starts(c, "get_or_load")
  /\ task'[c].cat = task[c].cat
  /\ task'[c].key = task[c].key

\* C8: a get_*_or_load on a key whose value the caller's previous call
\* returned, made before that value's time to live has run out and with no
\* invalidation in between, returns the same value without invoking its
\* loader; this holds in every category.
C8_SecondCallHits ==
  [][\A c \in Callers :
       (/\ task[c].pc = "done" /\ task[c].op = "get_or_load"
        /\ task[c].result.kind = "ok"
        /\ SameKeyAgain(c)
        /\ now < task[c].storedAt + TimeToLive(task[c].cat))
         => /\ task'[c].pc = "done"
            /\ task'[c].result = task[c].result
            /\ task'[c].loaderRuns = 0
            /\ cache' = cache]_vars

\* A second call on a secret value returned the stored value some time after
\* the first one stored it.
C8_Witness ==
  /\ task[1].op = "get_or_load" /\ task[1].pc = "done"
  /\ task[1].cat = "secret_values"
  /\ task[1].follows = "ok"
  /\ task[1].result.kind = "ok"
  /\ task[1].loaderRuns = 0
  /\ now > task[1].storedAt

\* C9: when the loader of a get_*_or_load fails, the call returns that error,
\* the cache is left as it was and holds no entry for the key, and the next
\* get_*_or_load on the key invokes its loader again.
C9_LoaderFailureNotCached ==
  [][\A c \in Callers :
       /\ (task[c].pc = "load_wait" /\ task'[c].pc = "done"
             /\ task'[c].result.kind # "ok")
            => /\ task'[c].result = Err(<<"loader error">>)
               /\ cache' = cache
               /\ cache'[task[c].cat][Unwrap(task[c].key)] = None
       /\ (/\ task[c].pc = "done" /\ task[c].op = "get_or_load"
           /\ task[c].result.kind = "err"
           /\ SameKeyAgain(c))
            => /\ task'[c].pc = "load_wait"
               /\ task'[c].loaderRuns = 1]_vars

\* The loader failed again on the call after a failed one, while other keys
\* hold entries.
C9_Witness ==
  /\ task[1].op = "get_or_load" /\ task[1].pc = "done"
  /\ task[1].follows = "err"
  /\ task[1].result = Err(<<"loader error">>)
  /\ task[1].loaderRuns = 1
  /\ \E cat \in Categories : \E key \in KeysOf(cat) : IsSome(cache[cat][key])

\* C10: a get_*_or_load that follows an invalidate of its key invokes the
\* loader and returns the loader's result, which is then the entry of the
\* key.
C10_InvalidateForcesReload ==
  [][\A c \in Callers :
       /\ (task[c].pc = "done" /\ task[c].op = "invalidate" /\ SameKeyAgain(c))
            => /\ task'[c].pc = "load_wait"
               /\ task'[c].loaderRuns = 1
       /\ (/\ task[c].pc = "load_wait" /\ task[c].follows = "invalidate"
           /\ task'[c].pc = "done" /\ task'[c].result.kind = "ok")
            => /\ task'[c].result.val = task'[c].loaded
               /\ CacheGet(task[c].cat, Unwrap(task[c].key))' = task'[c].loaded]_vars

\* A call reloaded a key whose entry had just been invalidated.
C10_Witness ==
  /\ task[1].op = "get_or_load" /\ task[1].pc = "done"
  /\ task[1].follows = "invalidate"
  /\ task[1].result.kind = "ok"
  /\ task[1].loaderRuns = 1
  /\ task[1].result.val = task[1].loaded

\* C11: once logout has returned, no category of the resource cache holds an
\* entry, so that the next fetch of any key runs its loader.
C11_LogoutWipesCache ==
  (task[1].op = "logout" /\ task[1].pc = "done") =>
    \A cat \in Categories : \A k \in KeysOf(cat) : cache[cat][k] = None

\* The credential kinds of the four ways to authenticate.
AuthMethods == {"cli", "service_principal", "interactive", "manual"}

\* C12: once logout has returned, AUTH_CREDENTIAL and USER_INFO are both empty
\* whichever method had filled them: is_authenticated is false, get_user_info
\* is None, and a get_token_for_scope call made then ends with
\* NotAuthenticated.
C12_LogoutEmptiesBothSlots ==
  /\ [](\A c \in Callers :
         (task[c].op = "logout" /\ task[c].pc = "done")
           => /\ AUTH_CREDENTIAL = 0 /\ USER_INFO = None
              /\ ~is_authenticated
              /\ get_user_info = None)
  /\ [][\A c \in Callers :
         (task[c].op = "logout" /\ task[c].pc = "done"
            /\ Starts(c, "get_token_for_scope"))
           => /\ task'[c].pc = "done"
              /\ task'[c].result = Err(<<"NotAuthenticated">>)]_vars

\* A logout has returned that found a Service-Principal credential and its
\* user information in place.
C12_Witness ==
  /\ task[1].op = "logout" /\ task[1].pc = "done"
  /\ task[1].via = "service_principal"
  /\ AUTH_CREDENTIAL = 0 /\ USER_INFO = None

\* C13: is_authenticated() is true only if some authentication attempt has
\* obtained a token: as long as the identity provider has issued no token at
\* all, AUTH_CREDENTIAL is empty, also while a device-code flow is started
\* and not completed, or has failed or timed out.
C13_AuthenticatedOnlyAfterToken == is_authenticated => issued > 0

\* C14: login() tries the Azure CLI first, always; it tries the Service
\* Principal only after the CLI attempt has failed and never after it has
\* succeeded; and it fails only when the Service-Principal attempt has failed
\* too, never on the CLI failure alone.
C14_CliFirstThenServicePrincipal ==
  \A c \in Callers :
    LET t == task[c] IN
    t.op = "login" =>
      /\ t.tried \in {<<"cli">>, <<"cli", "service_principal">>}
      /\ (t.pc = "cli_wait") => (t.tried = <<"cli">> /\ t.cli_error = <<>>)
      /\ (t.tried = <<"cli", "service_principal">>) <=> (t.cli_error # <<>>)
      /\ (t.got.kind = "ok" /\ t.via = "cli") => (t.tried = <<"cli">>)
      /\ (t.pc = "done" /\ t.result.kind = "err")
           => /\ t.tried = <<"cli", "service_principal">>
              /\ t.env_error # <<>>
              /\ t.got = NoResult

\* A login that succeeded through the Service Principal after the CLI attempt
\* had failed.
C14_Witness ==
  /\ task[1].op = "login" /\ task[1].pc = "done"
  /\ task[1].result.kind = "ok"
  /\ task[1].cli_error # <<>>
  /\ task[1].tried = <<"cli", "service_principal">>
  /\ creds[task[1].cred].kind = "service_principal"

\* part occurs in text as a run of consecutive elements
Contains(text, part) ==
  \E i \in 0..(Len(text) - Len(part)) : SubSeq(text, i + 1, i + Len(part)) = part

\* C15: when both attempts of login() have failed, the error returned holds
\* the reason of the CLI failure and the reason of the Service-Principal
\* failure, for every pair of failures.
C15_LoginErrorNamesBothReasons ==
  \A c \in Callers :
    LET t == task[c] IN
    (t.op = "login" /\ t.pc = "done" /\ t.result.kind = "err")
      => /\ t.cli_error \in {CliError(r) : r \in ExternalAnswers \ {[status |-> "ok", reason |-> ""]}}
         /\ t.env_error \in
              {EnvError(r) : r \in ExternalAnswers \ {[status |-> "ok", reason |-> ""]}}
                \cup {SecretNotSet}
         /\ Contains(t.result.err, <<"Azure CLI: ">> \o t.cli_error)
         /\ Contains(t.result.err, <<"Service Principal: ">> \o t.env_error)

\* A login failed by a CLI that is not logged in and a Service Principal whose
\* credential cannot be built, for different reasons.
C15_Witness ==
  /\ task[1].op = "login" /\ task[1].pc = "done"
  /\ task[1].result.kind = "err"
  /\ task[1].cli_error = <<"Azure CLI authentication failed: ", "reason A">>
  /\ task[1].env_error = <<"Failed to create client secret credential: ", "reason B">>

\* A claim that is present and not the empty string.
NonEmpty(claim) == IsSome(claim) /\ Unwrap(claim) # ""

\* The token gives no identity: it is not a decodable JWT, or none of its
\* claims holds a non-empty value.
NoClaimValue(token) ==
  \/ token.segments # 3 \/ ~token.decodes \/ ~token.parses
  \/ ~(\/ NonEmpty(token.upn) \/ NonEmpty(token.email)
       \/ NonEmpty(token.unique_name) \/ NonEmpty(token.preferred_username)
       \/ NonEmpty(token.name))

\* The identity store_user_info puts in place of a missing one.
PlaceholderIdentity ==
  [email |-> "Microsoft Account", name |-> Some("Personal Account")]

\* C16: whatever the text of the bearer token, store_auth_result succeeds and
\* leaves AUTH_CREDENTIAL and USER_INFO filled; when no claim of the token
\* yields a value, USER_INFO holds the placeholder identity.
C16_StoreAuthResultFillsBothSlots ==
  \A c \in Callers :
    LET t == task[c] IN
    (t.pc = "done" /\ IsSome(t.jwt))
      => /\ t.result.kind = "ok"
         /\ AUTH_CREDENTIAL = t.cred /\ AUTH_CREDENTIAL # 0
         /\ USER_INFO # None
         /\ NoClaimValue(Unwrap(t.jwt)) => USER_INFO = Some(PlaceholderIdentity)

\* The positions at which a caller waits for the answer to a request it has
\* sent: the device-code request, a poll of the token endpoint, the refresh
\* exchange.
NetworkWaits == {"start_wait", "poll_wait", "rf_wait"}

\* C17: a caller with a request in flight holds no lock, neither on
\* AUTH_CREDENTIAL, DEVICE_CODE_STATE or USER_INFO nor on the credential's
\* cached_tokens or refresh_token; so the read section of another caller's
\* get_token finds cached_tokens free while the exchange is under way.
C17_NoLockAcrossNetwork ==
  \A c \in Callers :
    task[c].pc \in NetworkWaits
      => /\ \A n \in LockNames : locks[n] # c
         /\ \A d \in Callers \ {c} :
              task[d].pc = "it_cache" => locks["cached_tokens"] = 0

\* Caller 1 has a refresh exchange in flight while caller 2 stands before the
\* read section with a live token cached for its own, different scope.
C17_Witness ==
  /\ task[1].pc = "rf_wait"
  /\ task[2].pc = "it_cache"
  /\ task[2].cred = task[1].cred
  /\ task[2].scope # task[1].scope
  /\ IsSome(creds[task[2].cred].cached_tokens[Unwrap(task[2].scope)])
  /\ TokenValid(Unwrap(creds[task[2].cred].cached_tokens[Unwrap(task[2].scope)]))

\* C18: the refresh token of a credential in use changes only in the step
\* that receives a successful token response carrying a refresh token, and
\* is then the one of that response; a refresh exchange that fails has sent
\* one request, is not repeated, and leaves the credential's refresh token
\* and cached tokens as they were.
C18_RefreshTokenFrame ==
  [][\A c \in Callers :
       LET t == task[c]
           id == t.cred
           exchanged == /\ t.pc \in {"poll_wait", "rf_wait"}
                        /\ task'[c].pc \in {"poll_cache", "rf_cache"}
                        /\ issued' = issued + 1 IN
       /\ \A i \in 1..Len(creds) :
            (creds'[i].refresh_token # creds[i].refresh_token
               /\ (AUTH_CREDENTIAL' = i
                     \/ \E d \in Callers : task'[d].cred = i
                                            /\ task'[d].pc \notin {"idle", "done"}))
              => \E d \in Callers :
                   /\ task[d].cred = i
                   /\ task[d].pc \in {"poll_wait", "rf_wait"}
                   /\ task'[d].pc \in {"poll_cache", "rf_cache"}
                   /\ issued' = issued + 1
                   /\ creds'[i].refresh_token = Some(issued')
       /\ exchanged => creds'[id].cached_tokens = creds[id].cached_tokens
       /\ (t.pc = "rf_wait" /\ ~exchanged /\ task'[c] # t)
            => /\ task'[c].got.kind = "err"
               /\ task'[c].pc = "done"
               /\ task'[c].nReq = 1
               /\ creds'[id].refresh_token = creds[id].refresh_token
               /\ creds'[id].cached_tokens = creds[id].cached_tokens]_vars

\* A refresh exchange has failed after its one request, and the credential
\* still holds the refresh token and the cached token it had.
C18_Witness ==
  /\ task[1].via = "refresh" /\ task[1].pc = "done"
  /\ task[1].got.kind = "err"
  /\ task[1].nReq = 1
  /\ AUTH_CREDENTIAL = task[1].cred
  /\ IsSome(creds[task[1].cred].refresh_token)
  /\ IsSome(creds[task[1].cred].cached_tokens[AUTH_SCOPES])

FirstNonEmpty(claims) ==
  IF \E i \in 1..Len(claims) : NonEmpty(claims[i])
    THEN claims[CHOOSE i \in 1..Len(claims) :
                  NonEmpty(claims[i]) /\ \A j \in 1..(i - 1) : ~NonEmpty(claims[j])]
    ELSE None

\* C20: for a token whose payload decodes, the email returned by
\* extract_user_info_from_token is the first non-empty one of the claims upn,
\* email, unique_name, preferred_username, an empty claim being passed over,
\* and it is None only when none of the four is non-empty.
C20_FirstNonEmptyClaimWins ==
  \A c \in Callers :
    LET t == task[c]
        token == Unwrap(t.jwt) IN
    (t.op = "extract_user_info_from_token" /\ t.pc = "done"
       /\ token.segments = 3 /\ token.decodes /\ token.parses)
      => t.user_email =
           FirstNonEmpty(<<token.upn, token.email, token.unique_name,
                           token.preferred_username>>)

\* C21: once complete_interactive_browser_login or complete_device_code_login
\* has returned successfully, DEVICE_CODE_STATE is empty.
C21_SessionClearedOnSuccess ==
  \A c \in Callers :
    (task[c].op \in CompleteOps /\ task[c].pc = "done"
       /\ task[c].result.kind = "ok")
      => DEVICE_CODE_STATE = None

\* C22: a start whose device-code request fails, by a transport error, a
\* non-success status or an unparsable body, returns that error after its one
\* request; neither sending the request nor receiving the failure changes
\* DEVICE_CODE_STATE, AUTH_CREDENTIAL or USER_INFO.
C22_FailedStartChangesNothing ==
  [][\A c \in Callers :
       LET slots == <<DEVICE_CODE_STATE, AUTH_CREDENTIAL, USER_INFO>>
           slotsAfter == <<DEVICE_CODE_STATE', AUTH_CREDENTIAL', USER_INFO'>> IN
       /\ (\E op \in StartOps : Starts(c, op))
            => (slotsAfter = slots /\ task'[c].pc = "start_wait"
                  /\ task'[c].nReq = 1)
       /\ (task[c].pc = "start_wait" /\ task'[c].pc = "done")
            => /\ slotsAfter = slots
               /\ task'[c].nReq = 1
               /\ task'[c].result \in
                    {Err(<<"Failed to request device code">>),
                     Err(<<"Device code request failed">>),
                     Err(<<"Failed to parse device code response">>)}
       /\ (task[c].pc = "start_wait" /\ task'[c] # task[c]
             /\ task'[c].pc # "done")
            => task'[c].pc = "start_state"]_vars

\* A start has failed while a session, a credential and the user information
\* of an earlier login were in place, and they still are.
C22_Witness ==
  /\ task[2].op \in StartOps /\ task[2].pc = "done"
  /\ task[2].result.kind = "err"
  /\ DEVICE_CODE_STATE # None /\ AUTH_CREDENTIAL # 0 /\ USER_INFO # None

\* C23: no polling loop sends an exchange request that carries a device code
\* other than the one of the session stored at that time: once a start has
\* overwritten DEVICE_CODE_STATE, the loop in flight sends the replaced code
\* no more.
C23_NoRequestWithReplacedCode ==
  [][\A c \in Callers :
       (task'[c].pc = "poll_wait" /\ task'[c].nReq = task[c].nReq + 1
          /\ DEVICE_CODE_STATE' # None)
         => Unwrap(task'[c].state).device_code
              = Unwrap(DEVICE_CODE_STATE').device_code]_vars

\* ---------------------------------------------------------------- claim C24
\* C24: the step in which delete_secret(vault, name) succeeds leaves the cache
\* with no secret value for (vault, name) and no secret list for vault, and
\* leaves every other entry of the cache as it was.
C24_DeleteSecretFrame ==
  [][\A c \in Callers :
       (/\ task[c].op = "delete_secret" /\ task[c].pc = "remote_wait"
        /\ task'[c].pc = "done" /\ task'[c].result.kind = "ok")
       => LET v == Unwrap(task[c].vault_uri)
              k == secret_key(v, Unwrap(task[c].secret_name)) IN
          /\ cache'["secret_values"][k] = None
          /\ cache'["secrets_list"][v] = None
          /\ \A cat \in Categories : \A key \in KeysOf(cat) :
               (<<cat, key>> \notin {<<"secret_values", k>>, <<"secrets_list", v>>})
               => cache'[cat][key] = cache[cat][key]]_vars

\* delete_secret has succeeded while other entries of the same vault, of the
\* other vault and of the key vault list are cached.
C24_Witness ==
  /\ task[1].op = "delete_secret" /\ task[1].pc = "done"
  /\ task[1].result.kind = "ok"
  /\ IsSome(cache["secret_values"][secret_key(<<"vaultA">>, <<"s2">>)])
  /\ IsSome(cache["secret_values"][secret_key(<<"vaultB">>, <<"s1">>)])
  /\ IsSome(cache["secrets_list"][<<"vaultB">>])
  /\ IsSome(cache["keyvaults"][<<"sub1">>])

C26_NoSingleFlight ==
  [][\A c \in Callers :
       /\ task'[c].pc = "load_wait" => task'[c].loaderRuns = 1
       /\ (/\ task[c].pc = "load_wait" /\ task'[c].pc = "done"
           /\ task'[c].result.kind = "ok")
          => /\ task'[c].loaderRuns = 1
             /\ task'[c].result = Ok(Unwrap(task'[c].loaded))
             /\ Unwrap(cache'[task[c].cat][Unwrap(task[c].key)]).value
                  = Unwrap(task'[c].loaded)
             /\ \A d \in Callers \ {c} : task'[d] = task[d]]_vars

\* Both callers missed the same key, both loaders ran and returned different
\* values, each caller got its own, and the cache holds the second one's.
C26_Witness ==
  /\ \A c \in Callers :
       /\ task[c].op = "get_or_load" /\ task[c].pc = "done"
       /\ task[c].cat = "secret_values"
       /\ task[c].key = Some(secret_key(<<"vaultA">>, <<"s1">>))
       /\ task[c].loaderRuns = 1
  /\ task[1].result = Ok(1) /\ task[1].loaded = Some(1)
  /\ task[2].result = Ok(2) /\ task[2].loaded = Some(2)
  /\ Unwrap(cache["secret_values"][secret_key(<<"vaultA">>, <<"s1">>)]).value = 2

\* ---------------------------------------------------------------- claim C27
\* C27: invalidate_vault_secrets(vault) leaves the cache with neither the
\* secret list of the vault nor the value of any of its secrets, and the
\* get_secret that follows it for a secret of the vault invokes its loader.
C27_VaultInvalidationDropsValues ==
  [][\A c \in Callers :
       /\ (task'[c].op = "invalidate_vault_secrets" /\ task'[c] # task[c])
          => LET v == Unwrap(task'[c].vault_uri) IN
             /\ cache'["secrets_list"][v] = None
             /\ \A n \in SecretNames : cache'["secret_values"][secret_key(v, n)] = None
       /\ (/\ task[c].op = "invalidate_vault_secrets" /\ task[c].pc = "done"
           /\ task'[c].op = "get_or_load" /\ task'[c].cat = "secret_values"
           /\ \E n \in SecretNames :
                task'[c].key = Some(secret_key(Unwrap(task[c].vault_uri), n)))
          => task'[c].loaderRuns = 1 /\ task'[c].pc = "load_wait"]_vars

\* ---------------------------------------------------------------- claim C28
\* C28: the step in which the interactive credential's get_token(S) returns
\* the token of a successful exchange, device-code or refresh, leaves the
\* per-scope cache holding that token under S, so that a following
\* get_token(S) made before the token expires is answered from the cache.
C28_ExchangedTokenCachedUnderScope ==
  [][\A c \in Callers :
       (/\ task[c].pc \in {"poll_cache", "rf_cache"} /\ task'[c] # task[c]
        /\ creds[task[c].cred].kind = "interactive")
       => creds'[task[c].cred].cached_tokens[Unwrap(task[c].scope)] = task[c].tok]_vars

\* ---------------------------------------------------------------- claim C29
\* C29: every slow_down answer makes the interactive polling loop sleep
\* exactly interval + POLL_SLOWDOWN_SECONDS, however many slow_down answers
\* it has received before, and leaves the interval of the session unchanged,
\* in the loop's copy and in DEVICE_CODE_STATE.
C29_SlowDownSleepIsConstant ==
  [][\A c \in Callers :
       (/\ task[c].pc = "poll_wait" /\ creds[task[c].cred].kind = "interactive"
        /\ task'[c].nSlow = task[c].nSlow + 1)
       => /\ task'[c].pc = "sleep"
          /\ task'[c].sleep = Unwrap(task[c].state).interval + POLL_SLOWDOWN_SECONDS
          /\ task'[c].state = task[c].state
          /\ task'[c].attempts = task[c].attempts
          /\ DEVICE_CODE_STATE' = DEVICE_CODE_STATE]_vars

\* The loop sleeps after its second slow_down, for the same interval + 5 as
\* after the first.
C29_Witness ==
  /\ task[1].pc = "sleep" /\ task[1].lastCode = "slow_down"
  /\ task[1].cred # 0 /\ creds[task[1].cred].kind = "interactive"
  /\ task[1].nSlow = 2
  /\ task[1].sleep = Unwrap(task[1].state).interval + POLL_SLOWDOWN_SECONDS
  /\ task[1].sleepDurs = {task[1].sleep}

\* ---------------------------------------------------------------- claim C30
\* C30: the get_secret(vault, name) with no version that follows a successful
\* create_secret(vault, name, v) or update_secret(vault, name, v) returns a
\* bundle whose value is v, from the cache or from the loader, whether the id
\* of the bundle the write returned ends with the name or with a version.
C30_ReadAfterWrite ==
  \A c \in Callers :
    (/\ task[c].op = "get_or_load" /\ task[c].pc = "done"
     /\ task[c].result.kind = "ok" /\ IsSome(task[c].written))
    => task[c].result = Ok(Unwrap(task[c].written))

\* ---------------------------------------------------------------- claim C31
\* C31: a token that a device-code credential's get_token(S) returns after an
\* exchange with the provider was issued for the resource of S: a request for
\* S never receives a token issued for another scope.
C31_TokenIssuedForRequestedScope ==
  \A c \in Callers :
    (/\ task[c].cred # 0 /\ task[c].cred <= Len(creds)
     /\ CredKind(task[c]) \in {"interactive", "manual"}
     /\ task[c].got.kind = "ok" /\ IsSome(task[c].issuedFor))
    => Unwrap(task[c].issuedFor)[1] = Unwrap(task[c].scope)[1]

\* ---------------------------------------------------------------- claim C32
\* C32: once logout() has returned, and as long as no login or start call is
\* invoked after it, is_authenticated() is false and get_user_info() is None:
\* an authentication that was in flight when logout ran fills neither slot.
\* (In SpecRace no call of caller 1 is invoked after the logout.)
C32_LogoutStaysLoggedOut ==
  (task[2].op = "logout" /\ task[2].pc = "done")
  => (~is_authenticated /\ get_user_info = None)

\* ---------------------------------------------------------------- claim C33
\* C33: once logout() and the store_auth_result of a successful
\* authentication have both returned, AUTH_CREDENTIAL is filled if and only
\* if USER_INFO is filled.
C33_SlotsAgreeAfterRace ==
  (/\ task[2].op = "logout" /\ task[2].pc = "done"
   /\ task[1].op \in {"login", "complete_interactive_browser_login"}
   /\ task[1].pc = "done" /\ task[1].result.kind = "ok")
  => (is_authenticated <=> get_user_info # None)

\* ---------------------------------------------------------------- claim C34
\* C34: once a get_secrets_list_or_load(vault) and a successful delete_secret
\* or create_secret on the vault have both returned, in whatever order their
\* steps were taken, the cache holds no secret list of the vault older than
\* the mutation: a list loaded before the mutation is not served afterwards.
C34_NoStaleListAfterMutation ==
  (/\ task[1].op = "get_or_load" /\ task[1].pc = "done"
   /\ task[2].op \in {"delete_secret", "create_secret"} /\ task[2].pc = "done"
   /\ task[2].result.kind = "ok"
   /\ IsSome(cache["secrets_list"][<<"vaultA">>]))
  => Unwrap(cache["secrets_list"][<<"vaultA">>]).value
       = RemoteVersion(1, "secrets_list", <<"vaultA">>)

\* ---------------------------------------------------------------- claim C35
\* C35: a fetch that is answered from the cache while an identity is logged
\* in returns that identity's data: what was loaded while identity A was the
\* active credential is never returned once the active credential is a
\* different identity B, after a logout and login or after a re-login.
C35_NoCacheAcrossIdentities ==
  \A c \in Callers :
    (/\ task[c].op = "get_or_load" /\ task[c].pc = "done"
     /\ task[c].result.kind = "ok" /\ task[c].loaderRuns = 0
     /\ IsSome(USER_INFO))
    => task[c].result = Ok(IdentityData(USER_INFO))

\* ---------------------------------------------------------------- claim C36
\* C36: after a start_interactive_browser_login (flow B) has returned, and
\* until B's own completion, DEVICE_CODE_STATE holds B's device code and
\* AUTH_CREDENTIAL holds B's credential: the completion of an earlier flow A
\* neither clears the session nor replaces the credential.  (In SpecRestart
\* caller 2 starts the flows, so B's credential is the newest one, and caller
\* 1 completes them; nobody logs out.)
C36_EarlierCompletionKeepsLaterFlow ==
  (/\ task[2].op = "start_interactive_browser_login" /\ task[2].pc = "done"
   /\ task[2].result.kind = "ok"
   /\ task[1].op \in {"idle", "complete_interactive_browser_login"}
   /\ task[1].cred # Len(creds)
   /\ task[1].cred # 0 => /\ creds[task[1].cred].kind = "interactive"
                          /\ task[1].state # task[2].state)
  => /\ DEVICE_CODE_STATE = task[2].state
     /\ AUTH_CREDENTIAL = Len(creds)

\* ------------------------------------------------ the order of the locks
\* SpecLocks: two callers log in, start and complete the interactive flow,
\* ask for tokens and log out in any interleaving; every endpoint answers
\* with success and the clock stands still.
NextLocks ==
  \E c \in Callers :
    \/ Login(c)
    \/ (flows = 0 /\ StartLogin(c, "start_interactive_browser_login"))
    \/ CompleteLogin(c, "complete_interactive_browser_login")
    \/ GetTokenForScope(c, KEYVAULT_SCOPE)
    \/ Logout(c)
    \/ CliResponse(c, [status |-> "ok", reason |-> ""])
    \/ ExternalTokenResponse(c, [status |-> "ok", reason |-> ""])
    \/ StartResponse(c, DeviceOk(1))
    \/ StartStoreState(c)
    \/ StartStoreCredential(c)
    \/ ICacheCheck(c) \/ IRefreshCheck(c) \/ IReadState(c) \/ IPollCache(c)
    \/ RfRead(c) \/ RfCache(c)
    \/ IPollResponse(c, TokenOk(None, TRUE))
    \/ RfResponse(c, TokenOk(None, FALSE))
    \/ CompleteClearState(c)
    \/ StoreAuthCredential(c)
    \/ StoreUserInfo(c, OpaqueToken)
    \/ LogoutUserInfo(c)

SpecLocks == Init /\ [][NextLocks]_vars

\* C37: no interleaving of login, start_interactive_browser_login,
\* complete_interactive_browser_login, get_token_for_scope and logout
\* deadlocks: whenever a call stands before a section on DEVICE_CODE_STATE,
\* AUTH_CREDENTIAL, USER_INFO, cached_tokens or refresh_token, some call can
\* enter the section it stands before, so no set of calls wait for each
\* other's locks.
C37_NoDeadlock ==
  (\E c \in Callers :
     task[c].pc \in {"it_cache", "it_refresh_check", "it_state", "poll_cache",
                     "rf_read", "rf_cache", "ci_clear", "start_state",
                     "start_cred", "store_auth", "store_user", "logout_user"})
    => ENABLED (\E c \in Callers :
                  \/ ICacheCheck(c) \/ IRefreshCheck(c) \/ IReadState(c)
                  \/ IPollCache(c) \/ RfRead(c) \/ RfCache(c)
                  \/ CompleteClearState(c)
                  \/ StartStoreState(c) \/ StartStoreCredential(c)
                  \/ StoreAuthCredential(c)
                  \/ StoreUserInfo(c, OpaqueToken)
                  \/ LogoutUserInfo(c))

\* start_interactive_browser_login of caller 1 holds DEVICE_CODE_STATE and
\* waits for AUTH_CREDENTIAL, which the logout of caller 2 holds while it
\* stands before USER_INFO.
C37_Witness ==
  /\ task[1].op = "start_interactive_browser_login"
  /\ task[1].pc = "start_cred"
  /\ locks["DEVICE_CODE_STATE"] = 1
  /\ task[2].op = "logout"
  /\ task[2].pc = "logout_user"
  /\ locks["AUTH_CREDENTIAL"] = 2

\* ------------------------------------------- one subscription by its id
\* A Subscription is written as its subscription_id. The lists the account's
\* subscriptions endpoint answers with, and the ids a caller asks for.
AccountLists == {<<"sub1", "sub2">>, <<"sub1", "sub2", "sub3">>}
RequestedIds == {"sub1", "SUB1", "sub3"}

\* The ASCII lower case of an id, for str::eq_ignore_ascii_case
AsciiLower(id) == IF id = "SUB1" THEN "sub1" ELSE id

\* The end of a call whose task has panicked: Option::unwrap on None.
Panicked ==
  [kind |-> "panic", err |-> <<"called Option::unwrap() on a None value">>,
   val |-> None]

\* AzureCache::get_subscription: None without a cached list; with one, the
\* first subscription of exactly that id, unwrapped.
get_subscription(subscription_id) ==
  LET result == CacheGet("subscriptions", <<"subscriptions">>)
      v == Unwrap(result)
      found == {i \in 1..Len(v) : v[i] = subscription_id} IN
  IF ~IsSome(result) THEN Ok(None)
  ELSE IF found = {} THEN Panicked
  ELSE Ok(Some(v[CHOOSE i \in found : \A j \in found : i <= j]))

\* azure::subscription::service::get_subscription, the loader of
\* fetch_subscription: the whole list is fetched and searched for the id,
\* ignoring ASCII case.
service_get_subscription(listing, subscription_id) ==
  LET found == IF listing.ok
                 THEN {i \in 1..Len(listing.value) :
                         AsciiLower(listing.value[i]) = AsciiLower(subscription_id)}
                 ELSE {} IN
  IF found = {} THEN LoadErr
  ELSE LoadOk(listing.value[CHOOSE i \in found : \A j \in found : i <= j])

\* get_subscription_or_load up to the call of the loader.
get_subscription_or_load(c, subscription_id) ==
  LET t == [IdleTask EXCEPT !.op = "get_subscription_or_load",
                            !.subscription_id = Some(subscription_id)]
      cached == get_subscription(subscription_id) IN
  /\ Ready(c)
  /\ IF cached.kind = "panic"
       THEN SetTask(c, [t EXCEPT !.pc = "done", !.result = Panicked])
       ELSE IF IsSome(Unwrap(cached.val))
         THEN SetTask(c, [t EXCEPT !.pc = "done",
                                   !.result = Ok(Unwrap(Unwrap(cached.val)))])
         ELSE SetTask(c, [t EXCEPT !.pc = "load_wait", !.loaderRuns = 1])
  /\ UNCHANGED <<now, authVars, cache>>

\* The loader of get_subscription_or_load returns: its subscription is pushed
\* onto the list cached by then, or onto an empty one, and that list is
\* stored.
SubscriptionLoaderReturns(c, listing) ==
  LET t == task[c]
      r == service_get_subscription(listing, Unwrap(t.subscription_id))
      cached == CacheGet("subscriptions", <<"subscriptions">>)
      subscriptions == IF IsSome(cached) THEN Unwrap(cached) ELSE <<>> IN
  /\ t.pc = "load_wait"
  /\ t.op = "get_subscription_or_load"
  /\ IF r.ok
       THEN /\ cache' = CacheInsert(cache, "subscriptions", <<"subscriptions">>,
                                    Append(subscriptions, r.value))
            /\ SetTask(c, [t EXCEPT !.pc = "done", !.result = Ok(r.value),
                                    !.loaded = Some(r.value), !.storedAt = now])
       ELSE /\ cache' = cache
            /\ SetTask(c, [t EXCEPT !.pc = "done", !.result = Err(<<"loader error">>)])
  /\ UNCHANGED <<now, authVars>>

\* What get_subscriptions_internal ends with: an error or the account's list.
ListingAnswers ==
  {[ok |-> FALSE, value |-> <<>>]} \cup {LoadOk(list) : list \in AccountLists}

\* SpecSubscriptions: two callers call fetch_subscriptions and
\* fetch_subscription in any interleaving; the clock stands still.
NextSubscriptions ==
  \E c \in Callers :
    \/ get_subscriptions_or_load(c)
    \/ \E r \in ListingAnswers : (task[c].op = "get_or_load" /\ LoaderReturns(c, r))
    \/ \E id \in RequestedIds : get_subscription_or_load(c, id)
    \/ \E r \in ListingAnswers : SubscriptionLoaderReturns(c, r)

SpecSubscriptions == Init /\ [][NextSubscriptions]_vars

\* C38: get_subscription_or_load(id, loader) ends by returning a subscription
\* whose id is id (as the service compares ids, ignoring ASCII case) or the
\* loader's error, and never aborts abnormally, whatever the cache holds; a
\* cached list without that id counts as a miss.
C38_SubscriptionOrLoaderError ==
  \A c \in Callers :
    (task[c].op = "get_subscription_or_load" /\ task[c].pc = "done")
      => \/ /\ task[c].result.kind = "ok"
            /\ AsciiLower(Unwrap(task[c].result.val))
                 = AsciiLower(Unwrap(task[c].subscription_id))
         \/ task[c].result = Err(<<"loader error">>)

\* C39: a list that get_subscriptions_or_load returns from the cache is a
\* list the full-list loader produces, never one assembled from the single
\* subscriptions that get_subscription_or_load has loaded.
C39_CachedListIsAFullList ==
  \A c \in Callers :
    (/\ task[c].op = "get_or_load" /\ task[c].cat = "subscriptions"
     /\ task[c].pc = "done" /\ task[c].result.kind = "ok"
     /\ task[c].loaderRuns = 0)
      => Unwrap(task[c].result.val) \in AccountLists

====
